---------------------------- MODULE Spec2Model ----------------------------
(***************************************************************************)
(* Model of BankStatementProcessor                                         *)
(* (src/match_invoices/bank_statement_processor.py).                       *)
(*                                                                         *)
(* Representation.                                                         *)
(*   - A Python str is the sequence of the code points of its characters *)
(*     ('DB' is <<68, 66>>); a text is the sequence of its lines           *)
(*     (text.split('\n')), so '' is << <<>> >>.  The type of a record      *)
(*     ('DEBIT', 'CREDIT', 'UNKNOWN') and the names of files, encodings,   *)
(*     exception classes and messages are written as strings.              *)
(*   - None is the empty sequence (the strings the code tests against     *)
(*     None are never empty: a regex match has at least four characters).  *)
(*   - A float is << sign, digits, exp >>: the number sign * digits *     *)
(*     10^exp, digits being the decimal digits of its significand without *)
(*     leading or trailing zeros.  0.0 is << 0, <<>>, 0 >>, inf and -inf   *)
(*     are << 1, <<>>, 1 >> and << -1, <<>>, 1 >>, NaN is << 0, <<>>, 1 >>. *)
(*     A numeral is rounded to inf and to 0.0 where a double is; between *)
(*     the two its significand is kept in full (a double rounds it to 53   *)
(*     bits, which loses nothing of a numeral of up to 15 significant      *)
(*     digits).                                                            *)
(*   - A Timestamp is << y*10000 + m*100 + d, second of the day,          *)
(*     nanosecond of the second >>, and one with a time zone has the zone *)
(*     as a fourth component, the first three giving its instant in UTC;  *)
(*     NaT is << >>.                                                       *)
(*   - A DataFrame is [cols |-> column labels, rows |-> rows], a row       *)
(*     being the tuple of its cells in column order.                       *)
(*   - pandas is a collaborator like the PDF and OCR libraries: what       *)
(*     read_csv, read_excel, to_datetime and to_numeric answer for a file  *)
(*     is given with the file.  The conversions the text parser makes on   *)
(*     its own strings (float, to_datetime with the format of line 174)    *)
(*     are computed.                                                       *)
(*   - The outcome of a call is Ok(value) or Raise(class, message).         *)
(***************************************************************************)
EXTENDS Integers, Sequences, FiniteSets

VARIABLES
    \* _parse_text_content, stepped line by line
    ppc,            \* "idle" | "loop" | "done"
    lines,          \* text.split('\n')
    line_no,        \* index of the next line of the for loop
    current_date,   \* the carried date (None or a matched date string)
    transactions,   \* the list of dicts appended so far
    parsed,         \* the DataFrame the call returns (EmptyFrame until it does)
    left_date,      \* history: current_date as the previous call left it
    \* process_statement and process_directory
    pc,             \* position in the code
    mode,           \* "single": process_statement was called; "batch": process_directory
    listing,        \* directory.glob('*'), as a sequence of files
    file_no,        \* index of the next file of the directory loop
    all_transactions,   \* the DataFrames collected by the directory loop
    file,           \* the file process_statement is working on
    page_no,        \* index of the next page (text layer) or image (OCR)
    all_text,       \* _process_pdf: texts of the pages extracted so far
    text_content,   \* _process_pdf: texts of the images recognized so far
    enc_no,         \* _process_csv: index of the next encoding
    ret,            \* outcome of process_statement
    result,         \* outcome of the call made
    ocr_called,     \* history: convert_from_path was called for the file
    attempted       \* history: names of the files handed to process_statement

pvars == <<ppc, lines, line_no, current_date, transactions, parsed, left_date>>

vars == <<pc, mode, listing, file_no, all_transactions, file, page_no, all_text,
          text_content, enc_no, ret, result, ocr_called, attempted>>

---------------------------------------------------------------------------
(* Bounds of the model *)

MaxLines == 3
MaxPages == 2
MaxCols == 3
MaxRows == 2
MaxFiles == 2

---------------------------------------------------------------------------
(* Python values *)

None == << >>
NaT == << >>
Stamp(ymd, second, nanosecond) == << ymd, second, nanosecond >>
AwareStamp(ymd, second, nanosecond, tz) == << ymd, second, nanosecond, tz >>

Zero == << 0, << >>, 0 >>
Inf(sign) == << sign, << >>, 1 >>
NaN == << 0, << >>, 1 >>

\* -x
Neg(x) == << -x[1], x[2], x[3] >>

Ok(v) == [kind |-> "ok", val |-> v]
Raise(class, message) == [kind |-> "raise", exc |-> class, msg |-> message]

EmptyFrame == [cols |-> << >>, rows |-> << >>]

Min(S) == CHOOSE x \in S : \A y \in S : x <= y
Max(S) == CHOOSE x \in S : \A y \in S : x >= y

RECURSIVE Flatten(_)
Flatten(ss) == IF ss = << >> THEN << >> ELSE Head(ss) \o Flatten(Tail(ss))

\* a if it is a value, else b
OrElse(a, b) == IF a # None THEN a ELSE b

---------------------------------------------------------------------------
(* Characters.  The tables are those of Python 3.11 (Unicode 14.0.0),      *)
(* taken from str.isspace, re's \s and \d, str.upper and str.lower.        *)

\* the characters of str.isspace(), which are those of \s and those
\* str.strip() removes
Whitespace ==
    {133, 160, 5760, 8239, 8287, 12288} \cup (9..13) \cup (28..32) \cup
    (8192..8202) \cup (8232..8233)

\* the whitespace float() strips: 0x1c-0x1f are left in place
FloatWhitespace == Whitespace \ (28..31)

\* the digit zero of every block of decimal digits (category Nd); the digits
\* 1-9 of the block follow it
DigitZeros ==
    { 48, 1632, 1776, 1984, 2406, 2534, 2662, 2790, 2918, 3046, 3174, 3302,
      3430, 3558, 3664, 3792, 3872, 4160, 4240, 6112, 6160, 6470, 6608, 6784,
      6800, 6992, 7088, 7232, 7248, 42528, 43216, 43264, 43472, 43504, 43600,
      44016, 65296, 66720, 68912, 69734, 69872, 69942, 70096, 70384, 70736,
      70864, 71248, 71360, 71472, 71904, 72016, 72784, 73040, 73120, 92768,
      92864, 93008, 120782, 120792, 120802, 120812, 120822, 123200, 123632,
      125264, 130032 }

\* the characters of \d, which int() and float() read as digits
Digits == UNION {z..(z + 9) : z \in DigitZeros}

IsDigit(c) == c \in Digits

DigitVal(c) == c - (CHOOSE z \in DigitZeros : c - z \in 0..9)

\* <<first, last, step, delta>>: str.upper() maps the characters first,
\* first + step, ..., last to the character delta further
UpperRanges ==
    << <<97, 122, 1, -32>>, <<181, 181, 1, 743>>, <<224, 246, 1, -32>>, <<248,
       254, 1, -32>>, <<255, 255, 1, 121>>, <<257, 303, 2, -1>>, <<305, 305,
       1, -232>>, <<307, 311, 2, -1>>, <<314, 328, 2, -1>>, <<331, 375, 2,
       -1>>, <<378, 382, 2, -1>>, <<383, 383, 1, -300>>, <<384, 384, 1, 195>>,
       <<387, 389, 2, -1>>, <<392, 392, 1, -1>>, <<396, 396, 1, -1>>, <<402,
       402, 1, -1>>, <<405, 405, 1, 97>>, <<409, 409, 1, -1>>, <<410, 410, 1,
       163>>, <<414, 414, 1, 130>>, <<417, 421, 2, -1>>, <<424, 424, 1, -1>>,
       <<429, 429, 1, -1>>, <<432, 432, 1, -1>>, <<436, 438, 2, -1>>, <<441,
       441, 1, -1>>, <<445, 445, 1, -1>>, <<447, 447, 1, 56>>, <<453, 453, 1,
       -1>>, <<454, 454, 1, -2>>, <<456, 456, 1, -1>>, <<457, 457, 1, -2>>,
       <<459, 459, 1, -1>>, <<460, 460, 1, -2>>, <<462, 476, 2, -1>>, <<477,
       477, 1, -79>>, <<479, 495, 2, -1>>, <<498, 498, 1, -1>>, <<499, 499, 1,
       -2>>, <<501, 501, 1, -1>>, <<505, 543, 2, -1>>, <<547, 563, 2, -1>>,
       <<572, 572, 1, -1>>, <<575, 576, 1, 10815>>, <<578, 578, 1, -1>>,
       <<583, 591, 2, -1>>, <<592, 592, 1, 10783>>, <<593, 593, 1, 10780>>,
       <<594, 594, 1, 10782>>, <<595, 595, 1, -210>>, <<596, 596, 1, -206>>,
       <<598, 599, 1, -205>>, <<601, 601, 1, -202>>, <<603, 603, 1, -203>>,
       <<604, 604, 1, 42319>>, <<608, 608, 1, -205>>, <<609, 609, 1, 42315>>,
       <<611, 611, 1, -207>>, <<613, 613, 1, 42280>>, <<614, 614, 1, 42308>>,
       <<616, 616, 1, -209>>, <<617, 617, 1, -211>>, <<618, 618, 1, 42308>>,
       <<619, 619, 1, 10743>>, <<620, 620, 1, 42305>>, <<623, 623, 1, -211>>,
       <<625, 625, 1, 10749>>, <<626, 626, 1, -213>>, <<629, 629, 1, -214>>,
       <<637, 637, 1, 10727>>, <<640, 640, 1, -218>>, <<642, 642, 1, 42307>>,
       <<643, 643, 1, -218>>, <<647, 647, 1, 42282>>, <<648, 648, 1, -218>>,
       <<649, 649, 1, -69>>, <<650, 651, 1, -217>>, <<652, 652, 1, -71>>,
       <<658, 658, 1, -219>>, <<669, 669, 1, 42261>>, <<670, 670, 1, 42258>>,
       <<837, 837, 1, 84>>, <<881, 883, 2, -1>>, <<887, 887, 1, -1>>, <<891,
       893, 1, 130>>, <<940, 940, 1, -38>>, <<941, 943, 1, -37>>, <<945, 961,
       1, -32>>, <<962, 962, 1, -31>>, <<963, 971, 1, -32>>, <<972, 972, 1,
       -64>>, <<973, 974, 1, -63>>, <<976, 976, 1, -62>>, <<977, 977, 1,
       -57>>, <<981, 981, 1, -47>>, <<982, 982, 1, -54>>, <<983, 983, 1, -8>>,
       <<985, 1007, 2, -1>>, <<1008, 1008, 1, -86>>, <<1009, 1009, 1, -80>>,
       <<1010, 1010, 1, 7>>, <<1011, 1011, 1, -116>>, <<1013, 1013, 1, -96>>,
       <<1016, 1016, 1, -1>>, <<1019, 1019, 1, -1>>, <<1072, 1103, 1, -32>>,
       <<1104, 1119, 1, -80>>, <<1121, 1153, 2, -1>>, <<1163, 1215, 2, -1>>,
       <<1218, 1230, 2, -1>>, <<1231, 1231, 1, -15>>, <<1233, 1327, 2, -1>>,
       <<1377, 1414, 1, -48>>, <<4304, 4346, 1, 3008>>, <<4349, 4351, 1,
       3008>>, <<5112, 5117, 1, -8>>, <<7296, 7296, 1, -6254>>, <<7297, 7297,
       1, -6253>>, <<7298, 7298, 1, -6244>>, <<7299, 7300, 1, -6242>>, <<7301,
       7301, 1, -6243>>, <<7302, 7302, 1, -6236>>, <<7303, 7303, 1, -6181>>,
       <<7304, 7304, 1, 35266>>, <<7545, 7545, 1, 35332>>, <<7549, 7549, 1,
       3814>>, <<7566, 7566, 1, 35384>>, <<7681, 7829, 2, -1>>, <<7835, 7835,
       1, -59>>, <<7841, 7935, 2, -1>>, <<7936, 7943, 1, 8>>, <<7952, 7957, 1,
       8>>, <<7968, 7975, 1, 8>>, <<7984, 7991, 1, 8>>, <<8000, 8005, 1, 8>>,
       <<8017, 8023, 2, 8>>, <<8032, 8039, 1, 8>>, <<8048, 8049, 1, 74>>,
       <<8050, 8053, 1, 86>>, <<8054, 8055, 1, 100>>, <<8056, 8057, 1, 128>>,
       <<8058, 8059, 1, 112>>, <<8060, 8061, 1, 126>>, <<8112, 8113, 1, 8>>,
       <<8126, 8126, 1, -7205>>, <<8144, 8145, 1, 8>>, <<8160, 8161, 1, 8>>,
       <<8165, 8165, 1, 7>>, <<8526, 8526, 1, -28>>, <<8560, 8575, 1, -16>>,
       <<8580, 8580, 1, -1>>, <<9424, 9449, 1, -26>>, <<11312, 11359, 1,
       -48>>, <<11361, 11361, 1, -1>>, <<11365, 11365, 1, -10795>>, <<11366,
       11366, 1, -10792>>, <<11368, 11372, 2, -1>>, <<11379, 11379, 1, -1>>,
       <<11382, 11382, 1, -1>>, <<11393, 11491, 2, -1>>, <<11500, 11502, 2,
       -1>>, <<11507, 11507, 1, -1>>, <<11520, 11557, 1, -7264>>, <<11559,
       11559, 1, -7264>>, <<11565, 11565, 1, -7264>>, <<42561, 42605, 2, -1>>,
       <<42625, 42651, 2, -1>>, <<42787, 42799, 2, -1>>, <<42803, 42863, 2,
       -1>>, <<42874, 42876, 2, -1>>, <<42879, 42887, 2, -1>>, <<42892, 42892,
       1, -1>>, <<42897, 42899, 2, -1>>, <<42900, 42900, 1, 48>>, <<42903,
       42921, 2, -1>>, <<42933, 42947, 2, -1>>, <<42952, 42954, 2, -1>>,
       <<42961, 42961, 1, -1>>, <<42967, 42969, 2, -1>>, <<42998, 42998, 1,
       -1>>, <<43859, 43859, 1, -928>>, <<43888, 43967, 1, -38864>>, <<65345,
       65370, 1, -32>>, <<66600, 66639, 1, -40>>, <<66776, 66811, 1, -40>>,
       <<66967, 66977, 1, -39>>, <<66979, 66993, 1, -39>>, <<66995, 67001, 1,
       -39>>, <<67003, 67004, 1, -39>>, <<68800, 68850, 1, -64>>, <<71872,
       71903, 1, -32>>, <<93792, 93823, 1, -32>>, <<125218, 125251, 1, -34>> >>

\* the characters str.upper() maps to several characters
UpperSpecial ==
    << <<223, <<83, 83>>>>, <<329, <<700, 78>>>>, <<496, <<74, 780>>>>, <<912,
       <<921, 776, 769>>>>, <<944, <<933, 776, 769>>>>, <<1415, <<1333,
       1362>>>>, <<7830, <<72, 817>>>>, <<7831, <<84, 776>>>>, <<7832, <<87,
       778>>>>, <<7833, <<89, 778>>>>, <<7834, <<65, 702>>>>, <<8016, <<933,
       787>>>>, <<8018, <<933, 787, 768>>>>, <<8020, <<933, 787, 769>>>>,
       <<8022, <<933, 787, 834>>>>, <<8064, <<7944, 921>>>>, <<8065, <<7945,
       921>>>>, <<8066, <<7946, 921>>>>, <<8067, <<7947, 921>>>>, <<8068,
       <<7948, 921>>>>, <<8069, <<7949, 921>>>>, <<8070, <<7950, 921>>>>,
       <<8071, <<7951, 921>>>>, <<8072, <<7944, 921>>>>, <<8073, <<7945,
       921>>>>, <<8074, <<7946, 921>>>>, <<8075, <<7947, 921>>>>, <<8076,
       <<7948, 921>>>>, <<8077, <<7949, 921>>>>, <<8078, <<7950, 921>>>>,
       <<8079, <<7951, 921>>>>, <<8080, <<7976, 921>>>>, <<8081, <<7977,
       921>>>>, <<8082, <<7978, 921>>>>, <<8083, <<7979, 921>>>>, <<8084,
       <<7980, 921>>>>, <<8085, <<7981, 921>>>>, <<8086, <<7982, 921>>>>,
       <<8087, <<7983, 921>>>>, <<8088, <<7976, 921>>>>, <<8089, <<7977,
       921>>>>, <<8090, <<7978, 921>>>>, <<8091, <<7979, 921>>>>, <<8092,
       <<7980, 921>>>>, <<8093, <<7981, 921>>>>, <<8094, <<7982, 921>>>>,
       <<8095, <<7983, 921>>>>, <<8096, <<8040, 921>>>>, <<8097, <<8041,
       921>>>>, <<8098, <<8042, 921>>>>, <<8099, <<8043, 921>>>>, <<8100,
       <<8044, 921>>>>, <<8101, <<8045, 921>>>>, <<8102, <<8046, 921>>>>,
       <<8103, <<8047, 921>>>>, <<8104, <<8040, 921>>>>, <<8105, <<8041,
       921>>>>, <<8106, <<8042, 921>>>>, <<8107, <<8043, 921>>>>, <<8108,
       <<8044, 921>>>>, <<8109, <<8045, 921>>>>, <<8110, <<8046, 921>>>>,
       <<8111, <<8047, 921>>>>, <<8114, <<8122, 921>>>>, <<8115, <<913,
       921>>>>, <<8116, <<902, 921>>>>, <<8118, <<913, 834>>>>, <<8119, <<913,
       834, 921>>>>, <<8124, <<913, 921>>>>, <<8130, <<8138, 921>>>>, <<8131,
       <<919, 921>>>>, <<8132, <<905, 921>>>>, <<8134, <<919, 834>>>>, <<8135,
       <<919, 834, 921>>>>, <<8140, <<919, 921>>>>, <<8146, <<921, 776,
       768>>>>, <<8147, <<921, 776, 769>>>>, <<8150, <<921, 834>>>>, <<8151,
       <<921, 776, 834>>>>, <<8162, <<933, 776, 768>>>>, <<8163, <<933, 776,
       769>>>>, <<8164, <<929, 787>>>>, <<8166, <<933, 834>>>>, <<8167, <<933,
       776, 834>>>>, <<8178, <<8186, 921>>>>, <<8179, <<937, 921>>>>, <<8180,
       <<911, 921>>>>, <<8182, <<937, 834>>>>, <<8183, <<937, 834, 921>>>>,
       <<8188, <<937, 921>>>>, <<64256, <<70, 70>>>>, <<64257, <<70, 73>>>>,
       <<64258, <<70, 76>>>>, <<64259, <<70, 70, 73>>>>, <<64260, <<70, 70,
       76>>>>, <<64261, <<83, 84>>>>, <<64262, <<83, 84>>>>, <<64275, <<1348,
       1350>>>>, <<64276, <<1348, 1333>>>>, <<64277, <<1348, 1339>>>>,
       <<64278, <<1358, 1350>>>>, <<64279, <<1348, 1341>>>> >>

\* <<first, last, step, delta>> of str.lower()
LowerRanges ==
    << <<65, 90, 1, 32>>, <<192, 214, 1, 32>>, <<216, 222, 1, 32>>, <<256,
       302, 2, 1>>, <<306, 310, 2, 1>>, <<313, 327, 2, 1>>, <<330, 374, 2,
       1>>, <<376, 376, 1, -121>>, <<377, 381, 2, 1>>, <<385, 385, 1, 210>>,
       <<386, 388, 2, 1>>, <<390, 390, 1, 206>>, <<391, 391, 1, 1>>, <<393,
       394, 1, 205>>, <<395, 395, 1, 1>>, <<398, 398, 1, 79>>, <<399, 399, 1,
       202>>, <<400, 400, 1, 203>>, <<401, 401, 1, 1>>, <<403, 403, 1, 205>>,
       <<404, 404, 1, 207>>, <<406, 406, 1, 211>>, <<407, 407, 1, 209>>,
       <<408, 408, 1, 1>>, <<412, 412, 1, 211>>, <<413, 413, 1, 213>>, <<415,
       415, 1, 214>>, <<416, 420, 2, 1>>, <<422, 422, 1, 218>>, <<423, 423, 1,
       1>>, <<425, 425, 1, 218>>, <<428, 428, 1, 1>>, <<430, 430, 1, 218>>,
       <<431, 431, 1, 1>>, <<433, 434, 1, 217>>, <<435, 437, 2, 1>>, <<439,
       439, 1, 219>>, <<440, 440, 1, 1>>, <<444, 444, 1, 1>>, <<452, 452, 1,
       2>>, <<453, 453, 1, 1>>, <<455, 455, 1, 2>>, <<456, 456, 1, 1>>, <<458,
       458, 1, 2>>, <<459, 475, 2, 1>>, <<478, 494, 2, 1>>, <<497, 497, 1,
       2>>, <<498, 500, 2, 1>>, <<502, 502, 1, -97>>, <<503, 503, 1, -56>>,
       <<504, 542, 2, 1>>, <<544, 544, 1, -130>>, <<546, 562, 2, 1>>, <<570,
       570, 1, 10795>>, <<571, 571, 1, 1>>, <<573, 573, 1, -163>>, <<574, 574,
       1, 10792>>, <<577, 577, 1, 1>>, <<579, 579, 1, -195>>, <<580, 580, 1,
       69>>, <<581, 581, 1, 71>>, <<582, 590, 2, 1>>, <<880, 882, 2, 1>>,
       <<886, 886, 1, 1>>, <<895, 895, 1, 116>>, <<902, 902, 1, 38>>, <<904,
       906, 1, 37>>, <<908, 908, 1, 64>>, <<910, 911, 1, 63>>, <<913, 929, 1,
       32>>, <<931, 939, 1, 32>>, <<975, 975, 1, 8>>, <<984, 1006, 2, 1>>,
       <<1012, 1012, 1, -60>>, <<1015, 1015, 1, 1>>, <<1017, 1017, 1, -7>>,
       <<1018, 1018, 1, 1>>, <<1021, 1023, 1, -130>>, <<1024, 1039, 1, 80>>,
       <<1040, 1071, 1, 32>>, <<1120, 1152, 2, 1>>, <<1162, 1214, 2, 1>>,
       <<1216, 1216, 1, 15>>, <<1217, 1229, 2, 1>>, <<1232, 1326, 2, 1>>,
       <<1329, 1366, 1, 48>>, <<4256, 4293, 1, 7264>>, <<4295, 4295, 1,
       7264>>, <<4301, 4301, 1, 7264>>, <<5024, 5103, 1, 38864>>, <<5104,
       5109, 1, 8>>, <<7312, 7354, 1, -3008>>, <<7357, 7359, 1, -3008>>,
       <<7680, 7828, 2, 1>>, <<7838, 7838, 1, -7615>>, <<7840, 7934, 2, 1>>,
       <<7944, 7951, 1, -8>>, <<7960, 7965, 1, -8>>, <<7976, 7983, 1, -8>>,
       <<7992, 7999, 1, -8>>, <<8008, 8013, 1, -8>>, <<8025, 8031, 2, -8>>,
       <<8040, 8047, 1, -8>>, <<8072, 8079, 1, -8>>, <<8088, 8095, 1, -8>>,
       <<8104, 8111, 1, -8>>, <<8120, 8121, 1, -8>>, <<8122, 8123, 1, -74>>,
       <<8124, 8124, 1, -9>>, <<8136, 8139, 1, -86>>, <<8140, 8140, 1, -9>>,
       <<8152, 8153, 1, -8>>, <<8154, 8155, 1, -100>>, <<8168, 8169, 1, -8>>,
       <<8170, 8171, 1, -112>>, <<8172, 8172, 1, -7>>, <<8184, 8185, 1,
       -128>>, <<8186, 8187, 1, -126>>, <<8188, 8188, 1, -9>>, <<8486, 8486,
       1, -7517>>, <<8490, 8490, 1, -8383>>, <<8491, 8491, 1, -8262>>, <<8498,
       8498, 1, 28>>, <<8544, 8559, 1, 16>>, <<8579, 8579, 1, 1>>, <<9398,
       9423, 1, 26>>, <<11264, 11311, 1, 48>>, <<11360, 11360, 1, 1>>,
       <<11362, 11362, 1, -10743>>, <<11363, 11363, 1, -3814>>, <<11364,
       11364, 1, -10727>>, <<11367, 11371, 2, 1>>, <<11373, 11373, 1,
       -10780>>, <<11374, 11374, 1, -10749>>, <<11375, 11375, 1, -10783>>,
       <<11376, 11376, 1, -10782>>, <<11378, 11378, 1, 1>>, <<11381, 11381, 1,
       1>>, <<11390, 11391, 1, -10815>>, <<11392, 11490, 2, 1>>, <<11499,
       11501, 2, 1>>, <<11506, 11506, 1, 1>>, <<42560, 42604, 2, 1>>, <<42624,
       42650, 2, 1>>, <<42786, 42798, 2, 1>>, <<42802, 42862, 2, 1>>, <<42873,
       42875, 2, 1>>, <<42877, 42877, 1, -35332>>, <<42878, 42886, 2, 1>>,
       <<42891, 42891, 1, 1>>, <<42893, 42893, 1, -42280>>, <<42896, 42898, 2,
       1>>, <<42902, 42920, 2, 1>>, <<42922, 42922, 1, -42308>>, <<42923,
       42923, 1, -42319>>, <<42924, 42924, 1, -42315>>, <<42925, 42925, 1,
       -42305>>, <<42926, 42926, 1, -42308>>, <<42928, 42928, 1, -42258>>,
       <<42929, 42929, 1, -42282>>, <<42930, 42930, 1, -42261>>, <<42931,
       42931, 1, 928>>, <<42932, 42946, 2, 1>>, <<42948, 42948, 1, -48>>,
       <<42949, 42949, 1, -42307>>, <<42950, 42950, 1, -35384>>, <<42951,
       42953, 2, 1>>, <<42960, 42960, 1, 1>>, <<42966, 42968, 2, 1>>, <<42997,
       42997, 1, 1>>, <<65313, 65338, 1, 32>>, <<66560, 66599, 1, 40>>,
       <<66736, 66771, 1, 40>>, <<66928, 66938, 1, 39>>, <<66940, 66954, 1,
       39>>, <<66956, 66962, 1, 39>>, <<66964, 66965, 1, 39>>, <<68736, 68786,
       1, 64>>, <<71840, 71871, 1, 32>>, <<93760, 93791, 1, 32>>, <<125184,
       125217, 1, 34>> >>

\* the characters str.lower() maps to several characters
LowerSpecial ==
    << <<304, <<105, 775>>>> >>

\* <<first, last>>: the characters lower() skips when it looks for the
\* letters around a capital sigma (case-ignorable characters)
CaseIgnorable ==
    << <<39, 39>>, <<46, 46>>, <<58, 58>>, <<94, 94>>, <<96, 96>>, <<168,
       168>>, <<173, 173>>, <<175, 175>>, <<180, 180>>, <<183, 184>>, <<688,
       879>>, <<884, 885>>, <<890, 890>>, <<900, 901>>, <<903, 903>>, <<1155,
       1161>>, <<1369, 1369>>, <<1375, 1375>>, <<1425, 1469>>, <<1471, 1471>>,
       <<1473, 1474>>, <<1476, 1477>>, <<1479, 1479>>, <<1524, 1524>>, <<1536,
       1541>>, <<1552, 1562>>, <<1564, 1564>>, <<1600, 1600>>, <<1611, 1631>>,
       <<1648, 1648>>, <<1750, 1757>>, <<1759, 1768>>, <<1770, 1773>>, <<1807,
       1807>>, <<1809, 1809>>, <<1840, 1866>>, <<1958, 1968>>, <<2027, 2037>>,
       <<2042, 2042>>, <<2045, 2045>>, <<2070, 2093>>, <<2137, 2139>>, <<2184,
       2184>>, <<2192, 2193>>, <<2200, 2207>>, <<2249, 2306>>, <<2362, 2362>>,
       <<2364, 2364>>, <<2369, 2376>>, <<2381, 2381>>, <<2385, 2391>>, <<2402,
       2403>>, <<2417, 2417>>, <<2433, 2433>>, <<2492, 2492>>, <<2497, 2500>>,
       <<2509, 2509>>, <<2530, 2531>>, <<2558, 2558>>, <<2561, 2562>>, <<2620,
       2620>>, <<2625, 2626>>, <<2631, 2632>>, <<2635, 2637>>, <<2641, 2641>>,
       <<2672, 2673>>, <<2677, 2677>>, <<2689, 2690>>, <<2748, 2748>>, <<2753,
       2757>>, <<2759, 2760>>, <<2765, 2765>>, <<2786, 2787>>, <<2810, 2815>>,
       <<2817, 2817>>, <<2876, 2876>>, <<2879, 2879>>, <<2881, 2884>>, <<2893,
       2893>>, <<2901, 2902>>, <<2914, 2915>>, <<2946, 2946>>, <<3008, 3008>>,
       <<3021, 3021>>, <<3072, 3072>>, <<3076, 3076>>, <<3132, 3132>>, <<3134,
       3136>>, <<3142, 3144>>, <<3146, 3149>>, <<3157, 3158>>, <<3170, 3171>>,
       <<3201, 3201>>, <<3260, 3260>>, <<3263, 3263>>, <<3270, 3270>>, <<3276,
       3277>>, <<3298, 3299>>, <<3328, 3329>>, <<3387, 3388>>, <<3393, 3396>>,
       <<3405, 3405>>, <<3426, 3427>>, <<3457, 3457>>, <<3530, 3530>>, <<3538,
       3540>>, <<3542, 3542>>, <<3633, 3633>>, <<3636, 3642>>, <<3654, 3662>>,
       <<3761, 3761>>, <<3764, 3772>>, <<3782, 3782>>, <<3784, 3789>>, <<3864,
       3865>>, <<3893, 3893>>, <<3895, 3895>>, <<3897, 3897>>, <<3953, 3966>>,
       <<3968, 3972>>, <<3974, 3975>>, <<3981, 3991>>, <<3993, 4028>>, <<4038,
       4038>>, <<4141, 4144>>, <<4146, 4151>>, <<4153, 4154>>, <<4157, 4158>>,
       <<4184, 4185>>, <<4190, 4192>>, <<4209, 4212>>, <<4226, 4226>>, <<4229,
       4230>>, <<4237, 4237>>, <<4253, 4253>>, <<4348, 4348>>, <<4957, 4959>>,
       <<5906, 5908>>, <<5938, 5939>>, <<5970, 5971>>, <<6002, 6003>>, <<6068,
       6069>>, <<6071, 6077>>, <<6086, 6086>>, <<6089, 6099>>, <<6103, 6103>>,
       <<6109, 6109>>, <<6155, 6159>>, <<6211, 6211>>, <<6277, 6278>>, <<6313,
       6313>>, <<6432, 6434>>, <<6439, 6440>>, <<6450, 6450>>, <<6457, 6459>>,
       <<6679, 6680>>, <<6683, 6683>>, <<6742, 6742>>, <<6744, 6750>>, <<6752,
       6752>>, <<6754, 6754>>, <<6757, 6764>>, <<6771, 6780>>, <<6783, 6783>>,
       <<6823, 6823>>, <<6832, 6862>>, <<6912, 6915>>, <<6964, 6964>>, <<6966,
       6970>>, <<6972, 6972>>, <<6978, 6978>>, <<7019, 7027>>, <<7040, 7041>>,
       <<7074, 7077>>, <<7080, 7081>>, <<7083, 7085>>, <<7142, 7142>>, <<7144,
       7145>>, <<7149, 7149>>, <<7151, 7153>>, <<7212, 7219>>, <<7222, 7223>>,
       <<7288, 7293>>, <<7376, 7378>>, <<7380, 7392>>, <<7394, 7400>>, <<7405,
       7405>>, <<7412, 7412>>, <<7416, 7417>>, <<7468, 7530>>, <<7544, 7544>>,
       <<7579, 7679>>, <<8125, 8125>>, <<8127, 8129>>, <<8141, 8143>>, <<8157,
       8159>>, <<8173, 8175>>, <<8189, 8190>>, <<8203, 8207>>, <<8216, 8217>>,
       <<8228, 8228>>, <<8231, 8231>>, <<8234, 8238>>, <<8288, 8292>>, <<8294,
       8303>>, <<8305, 8305>>, <<8319, 8319>>, <<8336, 8348>>, <<8400, 8432>>,
       <<11388, 11389>>, <<11503, 11505>>, <<11631, 11631>>, <<11647, 11647>>,
       <<11744, 11775>>, <<11823, 11823>>, <<12293, 12293>>, <<12330, 12333>>,
       <<12337, 12341>>, <<12347, 12347>>, <<12441, 12446>>, <<12540, 12542>>,
       <<40981, 40981>>, <<42232, 42237>>, <<42508, 42508>>, <<42607, 42610>>,
       <<42612, 42621>>, <<42623, 42623>>, <<42652, 42655>>, <<42736, 42737>>,
       <<42752, 42785>>, <<42864, 42864>>, <<42888, 42890>>, <<42994, 42996>>,
       <<43000, 43001>>, <<43010, 43010>>, <<43014, 43014>>, <<43019, 43019>>,
       <<43045, 43046>>, <<43052, 43052>>, <<43204, 43205>>, <<43232, 43249>>,
       <<43263, 43263>>, <<43302, 43309>>, <<43335, 43345>>, <<43392, 43394>>,
       <<43443, 43443>>, <<43446, 43449>>, <<43452, 43453>>, <<43471, 43471>>,
       <<43493, 43494>>, <<43561, 43566>>, <<43569, 43570>>, <<43573, 43574>>,
       <<43587, 43587>>, <<43596, 43596>>, <<43632, 43632>>, <<43644, 43644>>,
       <<43696, 43696>>, <<43698, 43700>>, <<43703, 43704>>, <<43710, 43711>>,
       <<43713, 43713>>, <<43741, 43741>>, <<43756, 43757>>, <<43763, 43764>>,
       <<43766, 43766>>, <<43867, 43871>>, <<43881, 43883>>, <<44005, 44005>>,
       <<44008, 44008>>, <<44013, 44013>>, <<64286, 64286>>, <<64434, 64450>>,
       <<65024, 65039>>, <<65043, 65043>>, <<65056, 65071>>, <<65106, 65106>>,
       <<65109, 65109>>, <<65279, 65279>>, <<65287, 65287>>, <<65294, 65294>>,
       <<65306, 65306>>, <<65342, 65342>>, <<65344, 65344>>, <<65392, 65392>>,
       <<65438, 65439>>, <<65507, 65507>>, <<65529, 65531>>, <<66045, 66045>>,
       <<66272, 66272>>, <<66422, 66426>>, <<67456, 67461>>, <<67463, 67504>>,
       <<67506, 67514>>, <<68097, 68099>>, <<68101, 68102>>, <<68108, 68111>>,
       <<68152, 68154>>, <<68159, 68159>>, <<68325, 68326>>, <<68900, 68903>>,
       <<69291, 69292>>, <<69446, 69456>>, <<69506, 69509>>, <<69633, 69633>>,
       <<69688, 69702>>, <<69744, 69744>>, <<69747, 69748>>, <<69759, 69761>>,
       <<69811, 69814>>, <<69817, 69818>>, <<69821, 69821>>, <<69826, 69826>>,
       <<69837, 69837>>, <<69888, 69890>>, <<69927, 69931>>, <<69933, 69940>>,
       <<70003, 70003>>, <<70016, 70017>>, <<70070, 70078>>, <<70089, 70092>>,
       <<70095, 70095>>, <<70191, 70193>>, <<70196, 70196>>, <<70198, 70199>>,
       <<70206, 70206>>, <<70367, 70367>>, <<70371, 70378>>, <<70400, 70401>>,
       <<70459, 70460>>, <<70464, 70464>>, <<70502, 70508>>, <<70512, 70516>>,
       <<70712, 70719>>, <<70722, 70724>>, <<70726, 70726>>, <<70750, 70750>>,
       <<70835, 70840>>, <<70842, 70842>>, <<70847, 70848>>, <<70850, 70851>>,
       <<71090, 71093>>, <<71100, 71101>>, <<71103, 71104>>, <<71132, 71133>>,
       <<71219, 71226>>, <<71229, 71229>>, <<71231, 71232>>, <<71339, 71339>>,
       <<71341, 71341>>, <<71344, 71349>>, <<71351, 71351>>, <<71453, 71455>>,
       <<71458, 71461>>, <<71463, 71467>>, <<71727, 71735>>, <<71737, 71738>>,
       <<71995, 71996>>, <<71998, 71998>>, <<72003, 72003>>, <<72148, 72151>>,
       <<72154, 72155>>, <<72160, 72160>>, <<72193, 72202>>, <<72243, 72248>>,
       <<72251, 72254>>, <<72263, 72263>>, <<72273, 72278>>, <<72281, 72283>>,
       <<72330, 72342>>, <<72344, 72345>>, <<72752, 72758>>, <<72760, 72765>>,
       <<72767, 72767>>, <<72850, 72871>>, <<72874, 72880>>, <<72882, 72883>>,
       <<72885, 72886>>, <<73009, 73014>>, <<73018, 73018>>, <<73020, 73021>>,
       <<73023, 73029>>, <<73031, 73031>>, <<73104, 73105>>, <<73109, 73109>>,
       <<73111, 73111>>, <<73459, 73460>>, <<78896, 78904>>, <<92912, 92916>>,
       <<92976, 92982>>, <<92992, 92995>>, <<94031, 94031>>, <<94095, 94111>>,
       <<94176, 94177>>, <<94179, 94180>>, <<110576, 110579>>, <<110581,
       110587>>, <<110589, 110590>>, <<113821, 113822>>, <<113824, 113827>>,
       <<118528, 118573>>, <<118576, 118598>>, <<119143, 119145>>, <<119155,
       119170>>, <<119173, 119179>>, <<119210, 119213>>, <<119362, 119364>>,
       <<121344, 121398>>, <<121403, 121452>>, <<121461, 121461>>, <<121476,
       121476>>, <<121499, 121503>>, <<121505, 121519>>, <<122880, 122886>>,
       <<122888, 122904>>, <<122907, 122913>>, <<122915, 122916>>, <<122918,
       122922>>, <<123184, 123197>>, <<123566, 123566>>, <<123628, 123631>>,
       <<125136, 125142>>, <<125252, 125259>>, <<127995, 127999>>, <<917505,
       917505>>, <<917536, 917631>>, <<917760, 917999>> >>

\* <<first, last>>: the cased characters that are not case-ignorable
Cased ==
    << <<65, 90>>, <<97, 122>>, <<170, 170>>, <<181, 181>>, <<186, 186>>,
       <<192, 214>>, <<216, 246>>, <<248, 442>>, <<444, 447>>, <<452, 659>>,
       <<661, 687>>, <<880, 883>>, <<886, 887>>, <<891, 893>>, <<895, 895>>,
       <<902, 902>>, <<904, 906>>, <<908, 908>>, <<910, 929>>, <<931, 1013>>,
       <<1015, 1153>>, <<1162, 1327>>, <<1329, 1366>>, <<1376, 1416>>, <<4256,
       4293>>, <<4295, 4295>>, <<4301, 4301>>, <<4304, 4346>>, <<4349, 4351>>,
       <<5024, 5109>>, <<5112, 5117>>, <<7296, 7304>>, <<7312, 7354>>, <<7357,
       7359>>, <<7424, 7467>>, <<7531, 7543>>, <<7545, 7578>>, <<7680, 7957>>,
       <<7960, 7965>>, <<7968, 8005>>, <<8008, 8013>>, <<8016, 8023>>, <<8025,
       8025>>, <<8027, 8027>>, <<8029, 8029>>, <<8031, 8061>>, <<8064, 8116>>,
       <<8118, 8124>>, <<8126, 8126>>, <<8130, 8132>>, <<8134, 8140>>, <<8144,
       8147>>, <<8150, 8155>>, <<8160, 8172>>, <<8178, 8180>>, <<8182, 8188>>,
       <<8450, 8450>>, <<8455, 8455>>, <<8458, 8467>>, <<8469, 8469>>, <<8473,
       8477>>, <<8484, 8484>>, <<8486, 8486>>, <<8488, 8488>>, <<8490, 8493>>,
       <<8495, 8500>>, <<8505, 8505>>, <<8508, 8511>>, <<8517, 8521>>, <<8526,
       8526>>, <<8544, 8575>>, <<8579, 8580>>, <<9398, 9449>>, <<11264,
       11387>>, <<11390, 11492>>, <<11499, 11502>>, <<11506, 11507>>, <<11520,
       11557>>, <<11559, 11559>>, <<11565, 11565>>, <<42560, 42605>>, <<42624,
       42651>>, <<42786, 42863>>, <<42865, 42887>>, <<42891, 42894>>, <<42896,
       42954>>, <<42960, 42961>>, <<42963, 42963>>, <<42965, 42969>>, <<42997,
       42998>>, <<43002, 43002>>, <<43824, 43866>>, <<43872, 43880>>, <<43888,
       43967>>, <<64256, 64262>>, <<64275, 64279>>, <<65313, 65338>>, <<65345,
       65370>>, <<66560, 66639>>, <<66736, 66771>>, <<66776, 66811>>, <<66928,
       66938>>, <<66940, 66954>>, <<66956, 66962>>, <<66964, 66965>>, <<66967,
       66977>>, <<66979, 66993>>, <<66995, 67001>>, <<67003, 67004>>, <<68736,
       68786>>, <<68800, 68850>>, <<71840, 71903>>, <<93760, 93823>>,
       <<119808, 119892>>, <<119894, 119964>>, <<119966, 119967>>, <<119970,
       119970>>, <<119973, 119974>>, <<119977, 119980>>, <<119982, 119993>>,
       <<119995, 119995>>, <<119997, 120003>>, <<120005, 120069>>, <<120071,
       120074>>, <<120077, 120084>>, <<120086, 120092>>, <<120094, 120121>>,
       <<120123, 120126>>, <<120128, 120132>>, <<120134, 120134>>, <<120138,
       120144>>, <<120146, 120485>>, <<120488, 120512>>, <<120514, 120538>>,
       <<120540, 120570>>, <<120572, 120596>>, <<120598, 120628>>, <<120630,
       120654>>, <<120656, 120686>>, <<120688, 120712>>, <<120714, 120744>>,
       <<120746, 120770>>, <<120772, 120779>>, <<122624, 122633>>, <<122635,
       122654>>, <<125184, 125251>>, <<127280, 127305>>, <<127312, 127337>>,
       <<127344, 127369>> >>

---------------------------------------------------------------------------
(* str methods *)

\* r is <<first, last, step, delta>>
InRange(c, r) == c >= r[1] /\ c <= r[2] /\ (c - r[1]) % r[3] = 0

\* c moved by the delta of the range of the table that holds it
Shifted(c, ranges) ==
    IF \E k \in DOMAIN ranges : InRange(c, ranges[k])
    THEN c + ranges[CHOOSE k \in DOMAIN ranges : InRange(c, ranges[k])][4]
    ELSE c

\* the characters c maps to: those the table of special characters gives,
\* else the one the ranges give
Mapped(c, special, ranges) ==
    IF \E k \in DOMAIN special : special[k][1] = c
    THEN special[CHOOSE k \in DOMAIN special : special[k][1] = c][2]
    ELSE <<Shifted(c, ranges)>>

\* c.upper(), c.lower() for a character c
UpperChar(c) == Mapped(c, UpperSpecial, UpperRanges)
LowerChar(c) == Mapped(c, LowerSpecial, LowerRanges)

\* str.upper()
Upper(s) == Flatten([i \in 1..Len(s) |-> UpperChar(s[i])])

InSpans(c, spans) == \E k \in DOMAIN spans : c >= spans[k][1] /\ c <= spans[k][2]

\* the index of the first character from s[j] on, going by dir, that is not
\* case-ignorable; 0 or Len(s) + 1 if there is none
RECURSIVE SkipIgnorable(_, _, _)
SkipIgnorable(s, j, dir) ==
    IF j >= 1 /\ j <= Len(s) /\ InSpans(s[j], CaseIgnorable)
    THEN SkipIgnorable(s, j + dir, dir) ELSE j

CasedAt(s, j) == j >= 1 /\ j <= Len(s) /\ InSpans(s[j], Cased)

\* the capital sigma s[i] ends a word: a cased letter precedes it and none
\* follows it
FinalSigma(s, i) ==
    CasedAt(s, SkipIgnorable(s, i - 1, -1)) /\ ~CasedAt(s, SkipIgnorable(s, i + 1, 1))

LowerAt(s, i) ==
    IF s[i] = 931 THEN <<IF FinalSigma(s, i) THEN 962 ELSE 963>> ELSE LowerChar(s[i])

\* str.lower()
Lower(s) == Flatten([i \in 1..Len(s) |-> LowerAt(s, i)])

\* sub in s
Contains(s, sub) ==
    \E i \in 1..(Len(s) - Len(sub) + 1) : SubSeq(s, i, i + Len(sub) - 1) = sub

\* s.replace(c, r) for a character c and a replacement r of length <= 1
Replace(s, c, r) == Flatten([i \in 1..Len(s) |-> IF s[i] = c THEN r ELSE <<s[i]>>])

\* s without its leading characters of cs
RECURSIVE LStripOf(_, _)
LStripOf(s, cs) == IF s # << >> /\ Head(s) \in cs THEN LStripOf(Tail(s), cs) ELSE s

\* s without its trailing characters of cs
RECURSIVE RStripOf(_, _)
RStripOf(s, cs) ==
    IF s # << >> /\ s[Len(s)] \in cs THEN RStripOf(SubSeq(s, 1, Len(s) - 1), cs) ELSE s

\* s.lstrip(), s.rstrip(), s.strip()
LStrip(s) == LStripOf(s, Whitespace)
RStrip(s) == RStripOf(s, Whitespace)
Strip(s) == RStrip(LStrip(s))

\* re.sub(r'\s+', ' ', s)
RECURSIVE CollapseWs(_)
CollapseWs(s) ==
    IF s = << >> THEN << >>
    ELSE IF Head(s) \in Whitespace THEN <<32>> \o CollapseWs(LStrip(s))
    ELSE <<Head(s)>> \o CollapseWs(Tail(s))

---------------------------------------------------------------------------
(* The pattern catalog: re matching of the six patterns.  MatchAt(p, s, i) *)
(* is the index just after the match of p that starts at s[i], 0 if p does *)
(* not match there (backtracking included).                                *)

date_patterns == <<"dd/dd/dddd", "dd-dd-dddd", "dddd-dd-dd">>
amount_patterns == <<"plain", "euro", "thousands">>

Is(s, i, c) == i >= 1 /\ i <= Len(s) /\ s[i] = c
DigitsAt(s, i, n) == i >= 1 /\ i + n - 1 <= Len(s) /\ \A k \in i..(i + n - 1) : IsDigit(s[k])

\* number of characters of the set cs that follow from s[i] on
RECURSIVE Run(_, _, _)
Run(s, i, cs) == IF i <= Len(s) /\ s[i] \in cs THEN 1 + Run(s, i + 1, cs) ELSE 0

\* number of consecutive groups \.\d{3} from s[i] on
RECURSIVE GroupRun(_, _)
GroupRun(s, i) == IF Is(s, i, 46 (* '.' *)) /\ DigitsAt(s, i + 1, 3) THEN 1 + GroupRun(s, i + 4) ELSE 0

\* \d{2}<sep>\d{2}<sep>\d{4}
MatchDMY(s, i, sep) ==
    IF DigitsAt(s, i, 2) /\ Is(s, i + 2, sep) /\ DigitsAt(s, i + 3, 2)
       /\ Is(s, i + 5, sep) /\ DigitsAt(s, i + 6, 4)
    THEN i + 10 ELSE 0

\* \d{4}-\d{2}-\d{2}
MatchYMD(s, i) ==
    IF DigitsAt(s, i, 4) /\ Is(s, i + 4, 45 (* '-' *)) /\ DigitsAt(s, i + 5, 2)
       /\ Is(s, i + 7, 45 (* '-' *)) /\ DigitsAt(s, i + 8, 2)
    THEN i + 10 ELSE 0

\* \d+[\.,]\d{2} from s[a]: the greedy \d+ takes the whole digit run, and giving
\* digits back leaves a digit where the separator must be
DecimalAfter(s, a, n) ==
    IF n >= 1 /\ (Is(s, a + n, 46 (* '.' *)) \/ Is(s, a + n, 44 (* ',' *))) /\ DigitsAt(s, a + n + 1, 2)
    THEN a + n + 3 ELSE 0

MatchDecimal(s, a) == DecimalAfter(s, a, Run(s, a, Digits))

\* -?\d+[\.,]\d{2}
MatchPlain(s, i) == MatchDecimal(s, IF Is(s, i, 45 (* '-' *)) THEN i + 1 ELSE i)

\* -?€\s*\d+[\.,]\d{2}
EuroAt(s, a) ==
    IF Is(s, a, 8364 (* '€' *)) THEN MatchDecimal(s, a + 1 + Run(s, a + 1, Whitespace)) ELSE 0

MatchEuro(s, i) == EuroAt(s, IF Is(s, i, 45 (* '-' *)) THEN i + 1 ELSE i)

\* \d{1,3}(?:\.\d{3})*,\d{2} from s[a] with k leading digits: the longest
\* sequence of groups after which ,\d{2} follows
GroupsEnd(p, gs) == IF gs = {} THEN 0 ELSE p + 4 * Max(gs) + 3

MatchGroups(s, a, k) ==
    IF DigitsAt(s, a, k)
    THEN GroupsEnd(a + k, {g \in 0..GroupRun(s, a + k) :
                            Is(s, a + k + 4 * g, 44 (* ',' *)) /\ DigitsAt(s, a + k + 4 * g + 1, 2)})
    ELSE 0

\* \d{1,3} is greedy: three digits are tried first, then two, then one
FirstNonZero(m3, m2, m1) == IF m3 # 0 THEN m3 ELSE IF m2 # 0 THEN m2 ELSE m1

ThousandsAt(s, a) == FirstNonZero(MatchGroups(s, a, 3), MatchGroups(s, a, 2), MatchGroups(s, a, 1))

\* -?\d{1,3}(?:\.\d{3})*,\d{2}
MatchThousands(s, i) == ThousandsAt(s, IF Is(s, i, 45 (* '-' *)) THEN i + 1 ELSE i)

MatchAt(p, s, i) ==
    CASE p = "dd/dd/dddd" -> MatchDMY(s, i, 47 (* '/' *))
      [] p = "dd-dd-dddd" -> MatchDMY(s, i, 45 (* '-' *))
      [] p = "dddd-dd-dd" -> MatchYMD(s, i)
      [] p = "plain" -> MatchPlain(s, i)
      [] p = "euro" -> MatchEuro(s, i)
      [] p = "thousands" -> MatchThousands(s, i)

\* start of the leftmost match of p in s at or after from; 0 if there is none
MinOrZero(starts) == IF starts = {} THEN 0 ELSE Min(starts)

Search(p, s, from) == MinOrZero({i \in from..Len(s) : MatchAt(p, s, i) # 0})

\* [m.group() for m in re.finditer(p, s)], scanning from index from; i is the
\* start of the next match and j the index after it
RECURSIVE FindAll(_, _, _)
FindAllFrom(p, s, i, j) == IF i = 0 THEN << >> ELSE <<SubSeq(s, i, j - 1)>> \o FindAll(p, s, j)
FindAllAt(p, s, i) == FindAllFrom(p, s, i, IF i = 0 THEN 0 ELSE MatchAt(p, s, i))
FindAll(p, s, from) == FindAllAt(p, s, Search(p, s, from))

\* re.sub(p, '', s), scanning from index from; i is the start of the next match
RECURSIVE ReSub(_, _, _)
ReSubAt(p, s, from, i) ==
    IF i = 0 THEN SubSeq(s, from, Len(s))
    ELSE SubSeq(s, from, i - 1) \o ReSub(p, s, MatchAt(p, s, i))
ReSub(p, s, from) == ReSubAt(p, s, from, Search(p, s, from))

---------------------------------------------------------------------------
(* _parse_text_content: one iteration of the line loop *)

debit_indicators ==
    << <<68, 66>> (* 'DB' *), <<68, 201, 66, 73, 84, 79>> (* 'DÉBITO' *), <<68, 69, 66, 73, 84, 79>> (* 'DEBITO' *), <<80, 65, 71, 65, 77, 69, 78, 84, 79>> (* 'PAGAMENTO' *), <<67, 79, 77, 80, 82, 65>> (* 'COMPRA' *), <<76, 69, 86, 65, 78, 84, 65, 77, 69, 78, 84, 79>> (* 'LEVANTAMENTO' *) >>

credit_indicators ==
    << <<67, 82>> (* 'CR' *), <<67, 82, 201, 68, 73, 84, 79>> (* 'CRÉDITO' *), <<67, 82, 69, 68, 73, 84, 79>> (* 'CREDITO' *), <<68, 69, 80, 211, 83, 73, 84, 79>> (* 'DEPÓSITO' *), <<68, 69, 80, 79, 83, 73, 84, 79>> (* 'DEPOSITO' *),
       <<84, 82, 65, 78, 83, 70, 69, 82, 202, 78, 67, 73, 65, 32, 82, 69, 67, 69, 66, 73, 68, 65>> (* 'TRANSFERÊNCIA RECEBIDA' *) >>

\* any(indicator in s for indicator in indicators)
AnyIn(indicators, s) == \E k \in 1..Len(indicators) : Contains(s, indicators[k])

\* lines 109-117: the first match of the first date pattern that matches, or None
RECURSIVE FirstDate(_, _)
FirstDateAt(line, k, i) ==
    IF i # 0 THEN SubSeq(line, i, MatchAt(date_patterns[k], line, i) - 1)
    ELSE FirstDate(line, k + 1)
FirstDate(line, k) ==
    IF k > Len(date_patterns) THEN None
    ELSE FirstDateAt(line, k, Search(date_patterns[k], line, 1))

\* lines 133-134: the clean-up of a matched amount string
CleanAmount(m) ==
    Replace(Replace(Replace(Replace(m, 8364 (* '€' *), << >>), 32 (* ' ' *), << >>), 46 (* '.' *), << >>),
            44 (* ',' *), <<46 (* '.' *)>>)

---------------------------------------------------------------------------
(* Numerals: float() and the number parser of pd.to_numeric *)

\* value of a string of digits
RECURSIVE DigitsValue(_)
DigitsValue(ds) ==
    IF ds = << >> THEN 0 ELSE 10 * DigitsValue(SubSeq(ds, 1, Len(ds) - 1)) + DigitVal(ds[Len(ds)])

RECURSIVE DropLeadingZeros(_)
DropLeadingZeros(ds) ==
    IF ds # << >> /\ DigitVal(Head(ds)) = 0 THEN DropLeadingZeros(Tail(ds)) ELSE ds

\* number of zeros that end the digits ds
RECURSIVE TrailingZeros(_)
TrailingZeros(ds) ==
    IF ds # << >> /\ DigitVal(ds[Len(ds)]) = 0
    THEN 1 + TrailingZeros(SubSeq(ds, 1, Len(ds) - 1)) ELSE 0

\* the digits of 2^1024 - 2^970 = 1.797...e308, half way between the largest
\* float and 2^1024: a number is rounded to inf from there on
OverflowDigits ==
    << 1, 7, 9, 7, 6, 9, 3, 1, 3, 4, 8, 6, 2, 3, 1, 5, 8, 0, 7, 9, 3, 7, 2, 8,
       9, 7, 1, 4, 0, 5, 3, 0, 3, 4, 1, 5, 0, 7, 9, 9, 3, 4, 1, 3, 2, 7, 1, 0,
       0, 3, 7, 8, 2, 6, 9, 3, 6, 1, 7, 3, 7, 7, 8, 9, 8, 0, 4, 4, 4, 9, 6, 8,
       2, 9, 2, 7, 6, 4, 7, 5, 0, 9, 4, 6, 6, 4, 9, 0, 1, 7, 9, 7, 7, 5, 8, 7,
       2, 0, 7, 0, 9, 6, 3, 3, 0, 2, 8, 6, 4, 1, 6, 6, 9, 2, 8, 8, 7, 9, 1, 0,
       9, 4, 6, 5, 5, 5, 5, 4, 7, 8, 5, 1, 9, 4, 0, 4, 0, 2, 6, 3, 0, 6, 5, 7,
       4, 8, 8, 6, 7, 1, 5, 0, 5, 8, 2, 0, 6, 8, 1, 9, 0, 8, 9, 0, 2, 0, 0, 0,
       7, 0, 8, 3, 8, 3, 6, 7, 6, 2, 7, 3, 8, 5, 4, 8, 4, 5, 8, 1, 7, 7, 1, 1,
       5, 3, 1, 7, 6, 4, 4, 7, 5, 7, 3, 0, 2, 7, 0, 0, 6, 9, 8, 5, 5, 5, 7, 1,
       3, 6, 6, 9, 5, 9, 6, 2, 2, 8, 4, 2, 9, 1, 4, 8, 1, 9, 8, 6, 0, 8, 3, 4,
       9, 3, 6, 4, 7, 5, 2, 9, 2, 7, 1, 9, 0, 7, 4, 1, 6, 8, 4, 4, 4, 3, 6, 5,
       5, 1, 0, 7, 0, 4, 3, 4, 2, 7, 1, 1, 5, 5, 9, 6, 9, 9, 5, 0, 8, 0, 9, 3,
       0, 4, 2, 8, 8, 0, 1, 7, 7, 9, 0, 4, 1, 7, 4, 4, 9, 7, 7, 9, 2 >>

\* the digits of 2^-1075 = 2.470...e-324, half of the smallest float above
\* zero: a number is rounded to 0.0 up to there
UnderflowDigits ==
    << 2, 4, 7, 0, 3, 2, 8, 2, 2, 9, 2, 0, 6, 2, 3, 2, 7, 2, 0, 8, 8, 2, 8, 4,
       3, 9, 6, 4, 3, 4, 1, 1, 0, 6, 8, 6, 1, 8, 2, 5, 2, 9, 9, 0, 1, 3, 0, 7,
       1, 6, 2, 3, 8, 2, 2, 1, 2, 7, 9, 2, 8, 4, 1, 2, 5, 0, 3, 3, 7, 7, 5, 3,
       6, 3, 5, 1, 0, 4, 3, 7, 5, 9, 3, 2, 6, 4, 9, 9, 1, 8, 1, 8, 0, 8, 1, 7,
       9, 9, 6, 1, 8, 9, 8, 9, 8, 2, 8, 2, 3, 4, 7, 7, 2, 2, 8, 5, 8, 8, 6, 5,
       4, 6, 3, 3, 2, 8, 3, 5, 5, 1, 7, 7, 9, 6, 9, 8, 9, 8, 1, 9, 9, 3, 8, 7,
       3, 9, 8, 0, 0, 5, 3, 9, 0, 9, 3, 9, 0, 6, 3, 1, 5, 0, 3, 5, 6, 5, 9, 5,
       1, 5, 5, 7, 0, 2, 2, 6, 3, 9, 2, 2, 9, 0, 8, 5, 8, 3, 9, 2, 4, 4, 9, 1,
       0, 5, 1, 8, 4, 4, 3, 5, 9, 3, 1, 8, 0, 2, 8, 4, 9, 9, 3, 6, 5, 3, 6, 1,
       5, 2, 5, 0, 0, 3, 1, 9, 3, 7, 0, 4, 5, 7, 6, 7, 8, 2, 4, 9, 2, 1, 9, 3,
       6, 5, 6, 2, 3, 6, 6, 9, 8, 6, 3, 6, 5, 8, 4, 8, 0, 7, 5, 7, 0, 0, 1, 5,
       8, 5, 7, 6, 9, 2, 6, 9, 9, 0, 3, 7, 0, 6, 3, 1, 1, 9, 2, 8, 2, 7, 9, 5,
       5, 8, 5, 5, 1, 3, 3, 2, 9, 2, 7, 8, 3, 4, 3, 3, 8, 4, 0, 9, 3, 5, 1, 9,
       7, 8, 0, 1, 5, 5, 3, 1, 2, 4, 6, 5, 9, 7, 2, 6, 3, 5, 7, 9, 5, 7, 4, 6,
       2, 2, 7, 6, 6, 4, 6, 5, 2, 7, 2, 8, 2, 7, 2, 2, 0, 0, 5, 6, 3, 7, 4, 0,
       0, 6, 4, 8, 5, 4, 9, 9, 9, 7, 7, 0, 9, 6, 5, 9, 9, 4, 7, 0, 4, 5, 4, 0,
       2, 0, 8, 2, 8, 1, 6, 6, 2, 2, 6, 2, 3, 7, 8, 5, 7, 3, 9, 3, 4, 5, 0, 7,
       3, 6, 3, 3, 9, 0, 0, 7, 9, 6, 7, 7, 6, 1, 9, 3, 0, 5, 7, 7, 5, 0, 6, 7,
       4, 0, 1, 7, 6, 3, 2, 4, 6, 7, 3, 6, 0, 0, 9, 6, 8, 9, 5, 1, 3, 4, 0, 5,
       3, 5, 5, 3, 7, 4, 5, 8, 5, 1, 6, 6, 6, 1, 1, 3, 4, 2, 2, 3, 7, 6, 6, 6,
       7, 8, 6, 0, 4, 1, 6, 2, 1, 5, 9, 6, 8, 0, 4, 6, 1, 9, 1, 4, 4, 6, 7, 2,
       9, 1, 8, 4, 0, 3, 0, 0, 5, 3, 0, 0, 5, 7, 5, 3, 0, 8, 4, 9, 0, 4, 8, 7,
       6, 5, 3, 9, 1, 7, 1, 1, 3, 8, 6, 5, 9, 1, 6, 4, 6, 2, 3, 9, 5, 2, 4, 9,
       1, 2, 6, 2, 3, 6, 5, 3, 8, 8, 1, 8, 7, 9, 6, 3, 6, 2, 3, 9, 3, 7, 3, 2,
       8, 0, 4, 2, 3, 8, 9, 1, 0, 1, 8, 6, 7, 2, 3, 4, 8, 4, 9, 7, 6, 6, 8, 2,
       3, 5, 0, 8, 9, 8, 6, 3, 3, 8, 8, 5, 8, 7, 9, 2, 5, 6, 2, 8, 3, 0, 2, 7,
       5, 5, 9, 9, 5, 6, 5, 7, 5, 2, 4, 4, 5, 5, 5, 0, 7, 2, 5, 5, 1, 8, 9, 3,
       1, 3, 6, 9, 0, 8, 3, 6, 2, 5, 4, 7, 7, 9, 1, 8, 6, 9, 4, 8, 6, 6, 7, 9,
       9, 4, 9, 6, 8, 3, 2, 4, 0, 4, 9, 7, 0, 5, 8, 2, 1, 0, 2, 8, 5, 1, 3, 1,
       8, 5, 4, 5, 1, 3, 9, 6, 2, 1, 3, 8, 3, 7, 7, 2, 2, 8, 2, 6, 1, 4, 5, 4,
       3, 7, 6, 9, 3, 4, 1, 2, 5, 3, 2, 0, 9, 8, 5, 9, 1, 3, 2, 7, 6, 6, 7, 2,
       3, 6, 3, 2, 8, 1, 2, 5 >>

\* the i-th digit of the significand a, zeros following its digits
DigitAt(a, i) == IF i <= Len(a) THEN a[i] ELSE 0

\* a < b for two significands d.ddd...
DigitsLess(a, b) ==
    \E i \in 1..Max({Len(a), Len(b)}) :
        DigitAt(a, i) < DigitAt(b, i) /\ \A j \in 1..(i - 1) : DigitAt(a, j) = DigitAt(b, j)

\* the float nearest to sign * d.ddd * 10^e
Nearest(sign, ds, e) ==
    IF e > 308 \/ (e = 308 /\ ~DigitsLess(ds, OverflowDigits)) THEN Inf(sign)
    ELSE IF e < -324 \/ (e = -324 /\ ~DigitsLess(UnderflowDigits, ds)) THEN Zero
    ELSE << sign, ds, e - (Len(ds) - 1) >>

\* the float nearest to sign * ds * 10^e, ds a string of digits without
\* leading or trailing zeros
Rounded(sign, ds, e) ==
    IF ds = << >> THEN Zero
    ELSE Nearest(sign, [i \in 1..Len(ds) |-> DigitVal(ds[i])], e + Len(ds) - 1)

\* the float of sign * ds * 10^e for a string of digits ds
Float(sign, ds, e) ==
    LET d == DropLeadingZeros(ds)
        zeros == TrailingZeros(d)
    IN  Rounded(sign, SubSeq(d, 1, Len(d) - zeros), e + zeros)

\* the sign a numeral starts with and the numeral without it
SignOf(t) == IF Is(t, 1, 45 (* '-' *)) THEN -1 ELSE 1
Unsigned(t) == IF Is(t, 1, 45 (* '-' *)) \/ Is(t, 1, 43 (* '+' *)) THEN Tail(t) ELSE t

\* the exponent written by the digits ds; beyond six digits it is out of the
\* range of every float, whatever its value
ExponentValue(ds) == IF Len(ds) > 6 THEN 1000000 ELSE DigitsValue(ds)

\* <<the exponent>> written by r, a sign and digits of the set digits; None
\* if r is not of that form
ExponentOf(r, digits) ==
    LET u == Unsigned(r)
    IN  IF u # << >> /\ Run(u, 1, digits) = Len(u)
        THEN <<SignOf(r) * ExponentValue(DropLeadingZeros(u))>> ELSE None

\* the float of the unsigned decimal numeral u, digits[.digits][e[+-]digits] or
\* .digits[e[+-]digits], its digits being of the set digits; None if u is not
\* of that form
DecimalOf(sign, u, digits) ==
    LET n == Run(u, 1, digits)
        point == IF Is(u, n + 1, 46 (* '.' *)) THEN 1 ELSE 0
        f == IF point = 1 THEN Run(u, n + 2, digits) ELSE 0
        ds == SubSeq(u, 1, n) \o SubSeq(u, n + 2, n + 1 + f)
        rest == SubSeq(u, n + point + f + 1, Len(u))
    IN  IF n + f = 0 THEN None
        ELSE IF rest = << >> THEN Float(sign, ds, -f)
        ELSE IF Head(rest) \in {101 (* 'e' *), 69 (* 'E' *)} /\ ExponentOf(Tail(rest), digits) # None
        THEN Float(sign, ds, ExponentOf(Tail(rest), digits)[1] - f)
        ELSE None

\* u with its ASCII capitals in lower case
AsciiLower(u) == [i \in 1..Len(u) |-> IF u[i] \in 65..90 THEN u[i] + 32 ELSE u[i]]

\* the float named by the word u, None if it names none
WordOf(sign, u) ==
    IF AsciiLower(u) \in { <<105, 110, 102>> (* 'inf' *), <<105, 110, 102, 105, 110, 105, 116, 121>> (* 'infinity' *) } THEN Inf(sign)
    ELSE IF AsciiLower(u) = <<110, 97, 110>> (* 'nan' *) THEN NaN
    ELSE None

\* an underscore may stand between two digits
UnderscoresGrouping(t) ==
    \A i \in 1..Len(t) :
        t[i] = 95 (* '_' *) => (i > 1 /\ i < Len(t) /\ IsDigit(t[i - 1]) /\ IsDigit(t[i + 1]))

\* line 136: float(str); None stands for ValueError
ToFloat(str) ==
    LET t == RStripOf(LStripOf(str, FloatWhitespace), FloatWhitespace)
        u == Replace(Unsigned(t), 95 (* '_' *), << >>)
    IN  IF UnderscoresGrouping(t)
        THEN OrElse(DecimalOf(SignOf(t), u, Digits), WordOf(SignOf(t), u))
        ELSE None

\* lines 130-139: the first match of one pattern whose clean-up float() accepts
RECURSIVE FirstFloat(_)
FirstFloatOr(x, rest) == IF x # None THEN x ELSE FirstFloat(rest)
FirstFloat(ms) ==
    IF ms = << >> THEN None ELSE FirstFloatOr(ToFloat(CleanAmount(Head(ms))), Tail(ms))

\* lines 127-141: amount patterns in catalog order.  A pattern whose matches
\* are all rejected by float() would leave a str in amount; no match of the
\* three patterns is rejected, so that case does not arise.
RECURSIVE ExtractAmount(_, _)
ExtractAmountOr(x, line, k) == IF x # None THEN x ELSE ExtractAmount(line, k + 1)
ExtractAmount(line, k) ==
    IF k > Len(amount_patterns) THEN None
    ELSE ExtractAmountOr(FirstFloat(FindAll(amount_patterns[k], line, 1)), line, k)

\* lines 145-148
RECURSIVE StripPatterns(_, _)
StripPatterns(s, ps) ==
    IF ps = << >> THEN s ELSE StripPatterns(ReSub(Head(ps), s, 1), Tail(ps))

Description(line) == Strip(CollapseWs(StripPatterns(line, date_patterns \o amount_patterns)))

\* the indicators set the type and the amount keeps the sign it was written with
ClassifyKeepsSign(description, amount) ==
    IF AnyIn(debit_indicators, Upper(description)) THEN <<"DEBIT", amount>>
    ELSE IF AnyIn(credit_indicators, Upper(description)) THEN <<"CREDIT", amount>>
    ELSE <<"UNKNOWN", amount>>

\* lines 154-162: <<type, amount>>
Classify(description, amount) ==
    IF AnyIn(debit_indicators, Upper(description))
    THEN <<"DEBIT", IF amount[1] > 0 THEN Neg(amount) ELSE amount>>
    ELSE IF AnyIn(credit_indicators, Upper(description))
    THEN <<"CREDIT", IF amount[1] < 0 THEN Neg(amount) ELSE amount>>
    ELSE <<"UNKNOWN", amount>>

\* lines 164-169
Transaction(date_match, description, classified) ==
    [date |-> date_match, description |-> description,
     amount |-> classified[2], type |-> classified[1]]

\* lines 143-169
EmitIfAmount(date_match, amount, description) ==
    IF amount = None THEN << >>
    ELSE << Transaction(date_match, description, Classify(description, amount)) >>

\* lines 119-169, date_match being the date found in the line (or None)
LineWithDate(line, cur, date_match) ==
    IF date_match = None /\ cur = None THEN << >>
    ELSE EmitIfAmount(IF date_match = None THEN cur ELSE date_match,
                      ExtractAmount(line, 1), Description(line))

\* the carried date is set once and never replaced
CarryDateFirstOnly(cur, found) == IF cur = None THEN found ELSE cur

\* line 114: the date found becomes the carried date
CarryDate(cur, found) == IF found # None THEN found ELSE cur

LineFound(line, cur, found) ==
    [cur |-> CarryDate(cur, found), out |-> LineWithDate(line, cur, found)]

\* lines 104-169: the body of the loop for one line, from the carried date cur:
\* the carried date after it and the dicts it appends
LineStep(line, cur) ==
    IF Strip(line) = << >> THEN [cur |-> cur, out |-> << >>]
    ELSE LineFound(line, cur, FirstDate(line, 1))

---------------------------------------------------------------------------
(* pandas: to_datetime, sort_values *)

DaysInMonth(y, m) ==
    IF m = 2 THEN (IF (y % 4 = 0 /\ y % 100 # 0) \/ y % 400 = 0 THEN 29 ELSE 28)
    ELSE IF m \in {4, 6, 9, 11} THEN 30 ELSE 31

ValidDate(y, m, d) == m \in 1..12 /\ d >= 1 /\ d <= DaysInMonth(y, m)

\* a Timestamp[ns] can hold the time: 1677-09-21 00:12:43.145224193 to
\* 2262-04-11 23:47:16.854775807
InBounds(ymd, second, nanosecond) ==
    /\ \/ ymd > 16770921
       \/ ymd = 16770921 /\ (second > 763 \/ (second = 763 /\ nanosecond >= 145224193))
    /\ \/ ymd < 22620411
       \/ ymd = 22620411 /\ (second < 85636 \/ (second = 85636 /\ nanosecond <= 854775807))

\* the Timestamp of the date and of the time of the day given in seconds;
\* NaT if there is no such date or the Timestamp cannot hold it
MakeStamp(y, m, d, second, nanosecond) ==
    IF ValidDate(y, m, d) /\ InBounds(y * 10000 + m * 100 + d, second, nanosecond)
    THEN Stamp(y * 10000 + m * 100 + d, second, nanosecond) ELSE NaT

\* the day the text t gives for %d (3[0-1]|[1-2]\d|0[1-9]|[1-9]| [1-9]), 0 if
\* it gives none
DayOf(t) ==
    IF Len(t) = 2 /\ t[1] = 51 (* '3' *) /\ t[2] \in {48 (* '0' *), 49 (* '1' *)} THEN 30 + (t[2] - 48)
    ELSE IF Len(t) = 2 /\ t[1] \in {49 (* '1' *), 50 (* '2' *)} /\ IsDigit(t[2])
    THEN 10 * (t[1] - 48) + DigitVal(t[2])
    ELSE IF Len(t) = 2 /\ t[1] \in {48 (* '0' *), 32 (* ' ' *)} /\ t[2] \in 49..57 THEN t[2] - 48
    ELSE IF Len(t) = 1 /\ t[1] \in 49..57 THEN t[1] - 48
    ELSE 0

\* the month the text t gives for %m (1[0-2]|0[1-9]|[1-9]), 0 if it gives none
MonthOf(t) ==
    IF Len(t) = 2 /\ t[1] = 49 (* '1' *) /\ t[2] \in 48..50 THEN 10 + (t[2] - 48)
    ELSE IF Len(t) = 2 /\ t[1] = 48 (* '0' *) /\ t[2] \in 49..57 THEN t[2] - 48
    ELSE IF Len(t) = 1 /\ t[1] \in 49..57 THEN t[1] - 48
    ELSE 0

\* the year the text t gives for %Y (\d\d\d\d), -1 if it gives none
YearOf(t) == IF Len(t) = 4 /\ DigitsAt(t, 1, 4) THEN DigitsValue(t) ELSE -1

\* index of the first c in s at or after from, 0 if there is none
IndexOf(s, c, from) == MinOrZero({i \in from..Len(s) : s[i] = c})

\* line 174: pd.to_datetime(s, format='%d/%m/%Y', errors='coerce') on one
\* string: the whole string must match the format, the day before the first
\* slash, the month between the two and the year after the second
ToDatetimeDMY(s) ==
    LET p1 == IndexOf(s, 47 (* '/' *), 1)
        p2 == IF p1 = 0 THEN 0 ELSE IndexOf(s, 47 (* '/' *), p1 + 1)
        y == YearOf(SubSeq(s, p2 + 1, Len(s)))
        m == MonthOf(SubSeq(s, p1 + 1, p2 - 1))
        d == DayOf(SubSeq(s, 1, p1 - 1))
    IN  IF p1 = 0 \/ p2 = 0 \/ y < 0 \/ m = 0 \/ d = 0 THEN NaT ELSE MakeStamp(y, m, d, 0, 0)

\* column labels
date_label == <<100, 97, 116, 101>> (* 'date' *)
description_label == <<100, 101, 115, 99, 114, 105, 112, 116, 105, 111, 110>> (* 'description' *)
amount_label == <<97, 109, 111, 117, 110, 116>> (* 'amount' *)
type_label == <<116, 121, 112, 101>> (* 'type' *)
source_file_label == <<115, 111, 117, 114, 99, 101, 95, 102, 105, 108, 101>> (* 'source_file' *)

\* position of label c in cols (the first one)
ColIndex(cols, c) == Min({i \in 1..Len(cols) : cols[i] = c})

\* the order of sort_values: ascending, NaT last
DateLess(a, b) ==
    a # NaT /\ (b = NaT \/ a[1] < b[1] \/ (a[1] = b[1] /\ a[2] < b[2])
                \/ (a[1] = b[1] /\ a[2] = b[2] /\ a[3] < b[3]))

\* row r inserted into the sorted rows after every row that is not later
RECURSIVE InsertRow(_, _, _)
InsertRow(rows, r, k) ==
    IF rows = << >> THEN <<r>>
    ELSE IF DateLess(r[k], Head(rows)[k]) THEN <<r>> \o rows
    ELSE <<Head(rows)>> \o InsertRow(Tail(rows), r, k)

RECURSIVE SortRows(_, _)
SortRows(rows, k) ==
    IF rows = << >> THEN << >>
    ELSE InsertRow(SortRows(SubSeq(rows, 1, Len(rows) - 1), k), rows[Len(rows)], k)

\* the table is returned in the order it was built
SortValuesSkipped(df) == df

\* df.sort_values('date'): rows with equal dates keep their order (the sort
\* of an array this short is an insertion sort)
SortValues(df) == [cols |-> df.cols, rows |-> SortRows(df.rows, ColIndex(df.cols, date_label))]

\* lines 171-178
TextFrame(txs) ==
    IF txs = << >> THEN EmptyFrame
    ELSE SortValues([cols |-> <<date_label, description_label, amount_label, type_label>>,
                     rows |-> [i \in 1..Len(txs) |->
                                 <<ToDatetimeDMY(txs[i].date), txs[i].description,
                                   txs[i].amount, txs[i].type>>]])

\* _parse_text_content as a whole, from the carried date cur
RECURSIVE ParseLines(_, _)
ParseRest(step, rest) == step.out \o ParseLines(rest, step.cur)
ParseLines(ls, cur) ==
    IF ls = << >> THEN << >> ELSE ParseRest(LineStep(Head(ls), cur), Tail(ls))

ParseTextContent(text) == TextFrame(ParseLines(text, None))

---------------------------------------------------------------------------
(* Input texts of the parser *)

SampleLines ==
    { <<48, 49, 47, 48, 51, 47, 50, 48, 50, 52, 32, 67, 79, 77, 80, 82, 65, 32, 45, 52, 53, 44, 54, 55>> (* '01/03/2024 COMPRA -45,67' *),
      <<48, 50, 47, 48, 51, 47, 50, 48, 50, 52, 32, 49, 46, 50, 51, 52, 44, 53, 54>> (* '02/03/2024 1.234,56' *),
      <<48, 51, 47, 48, 51, 47, 50, 48, 50, 52>> (* '03/03/2024' *),
      <<80, 65, 71, 65, 77, 69, 78, 84, 79, 32, 8364, 32, 52, 53, 44, 48, 48>> (* 'PAGAMENTO € 45,00' *),
      <<32>> (* ' ' *),
      <<50, 48, 50, 52, 45, 48, 51, 45, 48, 49, 32, 99, 114, 32, 45, 49, 50, 44, 51, 52>> (* '2024-03-01 cr -12,34' *),
      <<49, 1635, 47, 48, 51, 47, 50, 48, 50, 52, 32, 68, 69, 80, 211, 83, 73, 84, 79, 160, 1633, 1634, 44, 1637, 1632, 13>> (* '1\u0663/03/2024 DEP\u00d3SITO\u00a0\u0661\u0662,\u0665\u0660\r' *) }

RECURSIVE SeqsUpTo(_, _)
SeqsUpTo(S, n) ==
    IF n = 0 THEN {<< >>}
    ELSE SeqsUpTo(S, n - 1) \cup {Append(q, x) : q \in SeqsUpTo(S, n - 1), x \in S}

Texts == SeqsUpTo(SampleLines, MaxLines) \ {<< >>}

---------------------------------------------------------------------------
(* _parse_text_content as a state machine *)

\* line 102: current_date is a local of the call
InitialDateKept(previous) == previous
InitialDate(previous) == None

\* lines 85-102
ParseBegin ==
    /\ ppc = "idle"
    /\ \E text \in Texts : lines' = text
    /\ line_no' = 1
    /\ transactions' = << >>
    /\ current_date' = InitialDate(current_date)
    /\ left_date' = current_date
    /\ parsed' = EmptyFrame
    /\ ppc' = "loop"
    /\ UNCHANGED vars

\* the effect of one iteration on the locals of the call
LineApplied(step) ==
    /\ current_date' = step.cur
    /\ transactions' = transactions \o step.out

\* lines 103-169
ParseLine ==
    /\ ppc = "loop"
    /\ line_no <= Len(lines)
    /\ LineApplied(LineStep(lines[line_no], current_date))
    /\ line_no' = line_no + 1
    /\ UNCHANGED <<vars, ppc, lines, parsed, left_date>>

\* lines 171-178
ParseEnd ==
    /\ ppc = "loop"
    /\ line_no > Len(lines)
    /\ parsed' = TextFrame(transactions)
    /\ ppc' = "done"
    /\ UNCHANGED <<vars, lines, line_no, current_date, transactions, left_date>>

\* the call has returned: its locals are gone.  current_date is kept as the
\* call left it, which the next call must not see (line 102)
ParseReturn ==
    /\ ppc = "done"
    /\ ppc' = "idle"
    /\ lines' = << >>
    /\ line_no' = 1
    /\ transactions' = << >>
    /\ parsed' = EmptyFrame
    /\ UNCHANGED <<vars, current_date, left_date>>

ParseNext == ParseBegin \/ ParseLine \/ ParseEnd \/ ParseReturn

ParseIdle ==
    /\ ppc = "idle" /\ lines = << >> /\ line_no = 1 /\ current_date = None
    /\ transactions = << >> /\ parsed = EmptyFrame /\ left_date = None

---------------------------------------------------------------------------
(* _standardize_dataframe.  A raw table is the DataFrame pd.read_csv or     *)
(* pd.read_excel answers, with what pandas answers for its columns:        *)
(*   cols         the column labels: strs, or (read_excel, a header cell   *)
(*                holding a number) ints                                   *)
(*   rows         the rows, a cell being a str, a number, a Timestamp or   *)
(*                NaN (an empty cell)                                      *)
(*   to_datetime  per column of dates, what                                *)
(*                pd.to_datetime(column, errors='coerce') gives (line 224): *)
(*                per row a Timestamp or NaT                               *)
(*   to_numeric   per column, what pd.to_numeric(column.astype(str)         *)
(*                .str.replace(',', '.'), errors='coerce') gives (line      *)
(*                227): per row a number or NaN                             *)

\* a label that is an int: -1, which is no code point, then the number
IntLabel(n) == << -1, n >>

IsStr(label) == \A k \in DOMAIN label : label[k] >= 0

date_terms == << <<100, 97, 116, 101>> (* 'date' *), <<100, 97, 116, 97>> (* 'data' *), <<100, 105, 97>> (* 'dia' *) >>
amount_terms == << <<97, 109, 111, 117, 110, 116>> (* 'amount' *), <<118, 97, 108, 111, 114>> (* 'valor' *), <<109, 111, 110, 116, 97, 110, 116, 101>> (* 'montante' *), <<113, 117, 97, 110, 116, 105, 97>> (* 'quantia' *) >>
desc_terms == << <<100, 101, 115, 99>> (* 'desc' *), <<116, 101, 120, 116, 111>> (* 'texto' *), <<100, 101, 116, 97, 108, 104, 101>> (* 'detalhe' *) >>

\* any(term in col.lower() for term in terms)
ColumnMatches(col, terms) == AnyIn(terms, Lower(col))

\* [col for col in df.columns if ...]
RECURSIVE ColumnsMatching(_, _)
ColumnsMatching(cols, terms) ==
    IF cols = << >> THEN << >>
    ELSE (IF ColumnMatches(Head(cols), terms) THEN <<Head(cols)>> ELSE << >>)
         \o ColumnsMatching(Tail(cols), terms)

\* lines 217-221: the dict maps its keys in the order date, amount,
\* description, a later entry replacing an earlier one with the same key
RenameLabel(c, date_col, amount_col, desc_col) ==
    IF c = desc_col THEN description_label
    ELSE IF c = amount_col THEN amount_label
    ELSE IF c = date_col THEN date_label
    ELSE c

\* positions of label c in cols, in order
RECURSIVE Positions(_, _, _)
Positions(cols, c, i) ==
    IF i > Len(cols) THEN << >>
    ELSE (IF cols[i] = c THEN <<i>> ELSE << >>) \o Positions(cols, c, i + 1)

\* line 224: df['date'] is column i of the table read
ToDatetime(df, i) == df.to_datetime[i]

\* line 227: df['amount'] is column i of the table read
ToNumeric(df, i) == df.to_numeric[i]

\* a Timestamp with a time zone, and one without
Aware(x) == Len(x) = 4
Naive(x) == Len(x) = 3

\* the dates of the column labelled date
Dates(df) == {df.rows[r][ColIndex(df.cols, date_label)] : r \in 1..Len(df.rows)}

\* lines 232, 263: sort_values('date') compares the Timestamps of the column,
\* which raises for one with a time zone and one without
SortByDate(df) ==
    IF \E a, b \in Dates(df) : Naive(a) /\ Aware(b)
    THEN Raise("TypeError", "Cannot compare tz-naive and tz-aware timestamps")
    ELSE Ok(SortValues(df))

\* line 230
TypeOf(x) == IF x[1] > 0 THEN "CREDIT" ELSE "DEBIT"

\* lines 224-232 on one row of the renamed table: the cells of the columns
\* date, description (every column so labelled), amount, type
StandardCells(date, descs, amount) == <<date>> \o descs \o <<amount, TypeOf(amount)>>

ProjectRow(row, date, i_descs, amount) ==
    StandardCells(date, [k \in 1..Len(i_descs) |-> row[i_descs[k]]], amount)

\* row r of the table df, whose labels after the renaming are cols
StandardRow(df, cols, r) ==
    ProjectRow(df.rows[r], ToDatetime(df, ColIndex(cols, date_label))[r],
               Positions(cols, description_label, 1),
               ToNumeric(df, ColIndex(cols, amount_label))[r])

StandardRows(df, cols) == [r \in 1..Len(df.rows) |-> StandardRow(df, cols, r)]

\* lines 224-232 on the renamed table: n_date, n_amount and n_desc columns
\* carry the labels date, amount and description
StandardizeRenamed(df, cols, n_date, n_amount, n_desc) ==
    IF n_date = 0 THEN Raise("KeyError", "date")
    ELSE IF n_date > 1 THEN Raise("ValueError", "to assemble mappings requires year, month, day")
    ELSE IF n_amount = 0 THEN Raise("KeyError", "amount")
    ELSE IF n_amount > 1 THEN Raise("AttributeError", "DataFrame has no attribute str")
    ELSE IF n_desc = 0 THEN Raise("KeyError", "description")
    ELSE SortByDate(
            [cols |-> <<date_label>> \o [k \in 1..n_desc |-> description_label]
                      \o <<amount_label, type_label>>,
             rows |-> StandardRows(df, cols)])

\* lines 217-221
Rename(cols, date_col, amount_col, desc_col) ==
    [i \in 1..Len(cols) |-> RenameLabel(cols[i], date_col, amount_col, desc_col)]

CountLabel(cols, c) == Len(Positions(cols, c, 1))

StandardizeLabels(df, cols) ==
    StandardizeRenamed(df, cols, CountLabel(cols, date_label), CountLabel(cols, amount_label),
                       CountLabel(cols, description_label))

\* lines 213-221
StandardizeColumns(df, date_columns, amount_columns, desc_columns) ==
    IF date_columns = << >> \/ amount_columns = << >> \/ desc_columns = << >>
    THEN Raise("ValueError", "Could not identify required columns in the file")
    ELSE StandardizeLabels(df, Rename(df.cols, date_columns[1], amount_columns[1],
                                      desc_columns[1]))

\* lines 206-232; col.lower() at line 209 raises for a label that is no str
StandardizeDataframe(df) ==
    IF \E i \in 1..Len(df.cols) : ~IsStr(df.cols[i])
    THEN Raise("AttributeError", "'int' object has no attribute 'lower'")
    ELSE StandardizeColumns(df, ColumnsMatching(df.cols, date_terms),
                            ColumnsMatching(df.cols, amount_terms),
                            ColumnsMatching(df.cols, desc_terms))

---------------------------------------------------------------------------
(* Files.  A file carries what its collaborators answer for it:            *)
(*   open     outcome of pdfplumber.open                                   *)
(*   pages    outcome of page.extract_text() per page (a text, None or '') *)
(*   convert  outcome of convert_from_path                                 *)
(*   images   outcome of pytesseract.image_to_string per image             *)
(*   loads    outcome of pd.read_csv per encoding (.csv) or of             *)
(*            pd.read_excel (.xlsx, .xls): an exception, or a raw table    *)
(*            with what pd.to_datetime and pd.to_numeric answer for its   *)
(*            columns                                                      *)

supported_extensions == { <<46, 112, 100, 102>> (* '.pdf' *), <<46, 99, 115, 118>> (* '.csv' *), <<46, 120, 108, 115, 120>> (* '.xlsx' *), <<46, 120, 108, 115>> (* '.xls' *) }
encodings == <<"utf-8", "iso-8859-1", "cp1252">>

File(name, suffix, exists, open, pages, convert, images, loads) ==
    [name |-> name, suffix |-> suffix, exists |-> exists, open |-> open, pages |-> pages,
     convert |-> convert, images |-> images, loads |-> loads]

NoFile == File("", << >>, FALSE, Ok(0), << >>, Ok(0), << >>, << >>)

PdfFile(name, suffix, open, pages, convert, images) ==
    File(name, suffix, TRUE, open, pages, convert, images, << >>)

TableFile(name, suffix, loads) == File(name, suffix, TRUE, Ok(0), << >>, Ok(0), << >>, loads)

\* page and image texts, as sequences of lines
TextPurchase == << <<48, 49, 47, 48, 51, 47, 50, 48, 50, 52, 32, 67, 79, 77, 80, 82, 65, 32, 45, 52, 53, 44, 54, 55>> (* '01/03/2024 COMPRA -45,67' *) >>
TextNoTransaction == << <<83, 65, 76, 68, 79>> (* 'SALDO' *) >>
TextScanned == << <<50, 48, 50, 52, 45, 48, 51, 45, 48, 50, 32, 99, 114, 32, 55, 44, 48, 48>> (* '2024-03-02 cr 7,00' *), <<50, 56, 47, 48, 50, 47, 50, 48, 50, 52, 32, 68, 66, 32, 49, 44, 48, 48>> (* '28/02/2024 DB 1,00' *) >>
EmptyText == << << >> >>

ExtractionError == Raise("PDFSyntaxError", "text layer")
OcrError == Raise("TesseractError", "ocr")

PageOutcomes == {Ok(TextPurchase), Ok(TextNoTransaction), Ok(EmptyText), Ok(None), ExtractionError}
ImageOutcomes == {Ok(TextScanned), OcrError}

PdfFiles ==
    {PdfFile("s.pdf", <<46, 112, 100, 102>> (* '.pdf' *), o, pg, c, im) :
        o \in {Ok(0), ExtractionError}, pg \in SeqsUpTo(PageOutcomes, MaxPages),
        c \in {Ok(0), OcrError}, im \in SeqsUpTo(ImageOutcomes, MaxPages)}

\* raw tables.  A logical row gives the cells of a row by the kind of data
\* a column holds (d: dates, a: amounts, t: texts), and what pandas answers
\* for the first two: date is d under line 224, amount is a under line 227
Row(d, date, a, amount, t) == [d |-> d, date |-> date, a |-> a, amount |-> amount, t |-> t]

RowLoja == Row(<<50, 48, 50, 52, 45, 48, 51, 45, 48, 50>> (* '2024-03-02' *), Stamp(20240302, 0, 0), <<49, 48, 44, 53, 48>> (* '10,50' *), <<1, <<1, 0, 5>>, -1>>, <<108, 111, 106, 97>> (* 'loja' *))
RowCafe == Row(<<50, 48, 50, 52, 45, 48, 51, 45, 48, 49>> (* '2024-03-01' *), Stamp(20240301, 0, 0), <<45, 51>> (* '-3' *), <<-1, <<3>>, 0>>, <<99, 97, 102, 101>> (* 'cafe' *))

\* a date and an amount pandas cannot read
RowJuro == Row(<<112, 101, 110, 100, 101, 110, 116, 101>> (* 'pendente' *), NaT, <<49, 46, 50, 51, 52, 44, 53, 54>> (* '1.234,56' *), NaN, <<106, 117, 114, 111>> (* 'juro' *))

\* a day the month does not have, and two empty cells
RowEmpty == Row(<<50, 48, 50, 52, 45, 48, 50, 45, 51, 48>> (* '2024-02-30' *), NaT, NaN, NaN, NaN)

\* dates that name a time zone
RowRenda ==
    Row(<<50, 48, 50, 52, 45, 48, 51, 45, 48, 50, 32, 49, 48, 58, 51, 48, 90>> (* '2024-03-02 10:30Z' *), AwareStamp(20240302, 37800, 0, "UTC"), <<49, 44, 53, 101, 50>> (* '1,5e2' *), <<1, <<1, 5>>, 1>>,
        <<114, 101, 110, 100, 97>> (* 'renda' *))
RowTaxa ==
    Row(<<50, 48, 50, 52, 45, 48, 51, 45, 48, 49, 32, 48, 57, 58, 48, 48, 90>> (* '2024-03-01 09:00Z' *), AwareStamp(20240301, 32400, 0, "UTC"), <<48>> (* '0' *), Zero, <<116, 97, 120, 97>> (* 'taxa' *))

\* cells read_excel gives as a datetime and as a number
RowTyped ==
    Row(Stamp(20240302, 29700, 0), Stamp(20240302, 29700, 0), <<1, <<1, 0, 5>>, -1>>,
        <<1, <<1, 0, 5>>, -1>>, <<108, 111, 106, 97>> (* 'loja' *))
RowTypedDebit ==
    Row(Stamp(20240301, 0, 0), Stamp(20240301, 0, 0), <<-1, <<3>>, 0>>, <<-1, <<3>>, 0>>, NaN)

\* the rows of one table: what to_datetime gives for a cell depends on the
\* column (its first cell decides the format the others are read with), and
\* it is the date above in a column of the rows of one of these families
NaiveRows == {RowLoja, RowCafe, RowJuro, RowEmpty}
AwareRows == {RowRenda, RowTaxa, RowJuro, RowEmpty}
TypedRows == {RowTyped, RowTypedDebit}

DateNames == { <<68, 97, 116, 97>> (* 'Data' *), <<100, 97, 116, 101>> (* 'date' *), <<68, 97, 116, 97, 32, 86, 97, 108, 111, 114>> (* 'Data Valor' *) }
AmountNames == { <<86, 97, 108, 111, 114>> (* 'Valor' *), <<97, 109, 111, 117, 110, 116>> (* 'amount' *), <<83, 97, 108, 100, 111>> (* 'Saldo' *) }

ColumnNames ==
    { <<68, 97, 116, 97>> (* 'Data' *), <<100, 97, 116, 101>> (* 'date' *), <<86, 97, 108, 111, 114>> (* 'Valor' *), <<97, 109, 111, 117, 110, 116>> (* 'amount' *), <<68, 101, 115, 99, 114, 105, 231, 227, 111>> (* 'Descrição' *), <<100, 101, 115, 99, 114, 105, 112, 116, 105, 111, 110>> (* 'description' *),
      <<83, 97, 108, 100, 111>> (* 'Saldo' *), <<68, 97, 116, 97, 32, 86, 97, 108, 111, 114>> (* 'Data Valor' *) }

CellOf(row, name) ==
    IF name \in DateNames THEN row.d ELSE IF name \in AmountNames THEN row.a ELSE row.t

\* line 227 on the cell: a date and a text are no numbers
AmountOf(row, name) == IF name \in AmountNames THEN row.amount ELSE NaN

RawTable(names, lrows) ==
    [cols |-> names,
     rows |-> [r \in 1..Len(lrows) |-> [c \in 1..Len(names) |-> CellOf(lrows[r], names[c])]],
     to_datetime |-> [c \in {k \in 1..Len(names) : names[k] \in DateNames} |->
                        [r \in 1..Len(lrows) |-> lrows[r].date]],
     to_numeric |-> [c \in 1..Len(names) |->
                       [r \in 1..Len(lrows) |-> AmountOf(lrows[r], names[c])]]]

Distinct(q) == \A i, j \in 1..Len(q) : i # j => q[i] # q[j]

HeaderLists == {q \in SeqsUpTo(ColumnNames, MaxCols) : q # << >> /\ Distinct(q)}

TwoRows == <<RowLoja, RowCafe>>

SomeHeaders ==
    { << <<68, 101, 115, 99, 114, 105, 231, 227, 111>> (* 'Descrição' *), <<68, 97, 116, 97>> (* 'Data' *), <<86, 97, 108, 111, 114>> (* 'Valor' *) >>, << <<100, 97, 116, 101>> (* 'date' *), <<97, 109, 111, 117, 110, 116>> (* 'amount' *), <<100, 101, 115, 99, 114, 105, 112, 116, 105, 111, 110>> (* 'description' *) >> }

\* header rows with a cell that holds a number
NumberedHeaders ==
    { << <<68, 101, 115, 99, 114, 105, 231, 227, 111>> (* 'Descrição' *), <<68, 97, 116, 97>> (* 'Data' *), IntLabel(2024) >>,
      << IntLabel(1), <<100, 97, 116, 101>> (* 'date' *), <<97, 109, 111, 117, 110, 116>> (* 'amount' *), <<100, 101, 115, 99, 114, 105, 112, 116, 105, 111, 110>> (* 'description' *) >> }

\* the tables either reader may answer
Tables ==
    {RawTable(h, TwoRows) : h \in HeaderLists}
    \cup {RawTable(h, rs) : h \in SomeHeaders,
                            rs \in SeqsUpTo(NaiveRows, MaxRows) \cup SeqsUpTo(AwareRows, MaxRows)}

\* the tables read_excel alone may answer
TypedTables ==
    {RawTable(h, rs) : h \in SomeHeaders, rs \in SeqsUpTo(TypedRows, MaxRows)}
    \cup {RawTable(h, TwoRows) : h \in NumberedHeaders}

DecodeError == Raise("UnicodeDecodeError", "codec can't decode")
ParserError == Raise("ParserError", "Error tokenizing data")

\* what read_csv answers under the three encodings for a file holding table t
CsvLoads(t) ==
    { <<Ok(t), Ok(t), Ok(t)>>, <<DecodeError, Ok(t), Ok(t)>>, <<DecodeError, DecodeError, Ok(t)>>,
      <<DecodeError, DecodeError, DecodeError>>, <<ParserError, ParserError, ParserError>> }

CsvFiles == {TableFile("s.csv", <<46, 99, 115, 118>> (* '.csv' *), l) : l \in UNION {CsvLoads(t) : t \in Tables}}

ExcelFiles ==
    {TableFile("s.xlsx", <<46, 120, 108, 115, 120>> (* '.xlsx' *), <<Ok(t)>>) : t \in Tables \cup TypedTables}
    \cup {TableFile("s.xls", <<46, 88, 76, 83>> (* '.XLS' *), <<Raise("BadZipFile", "File is not a zip file")>>)}

OtherFiles ==
    { File("gone.pdf", <<46, 112, 100, 102>> (* '.pdf' *), FALSE, Ok(0), << >>, Ok(0), << >>, << >>),
      File("notes.txt", <<46, 116, 120, 116>> (* '.txt' *), TRUE, Ok(0), << >>, Ok(0), << >>, << >>),
      PdfFile("S.PDF", <<46, 80, 68, 70>> (* '.PDF' *), Ok(0), <<Ok(TextPurchase)>>, Ok(0), <<Ok(TextScanned)>>) }

\* the files process_statement is called on directly
Files == PdfFiles \cup CsvFiles \cup ExcelFiles \cup OtherFiles

\* the files a directory may hold
GoodTable == RawTable(<< <<68, 101, 115, 99, 114, 105, 231, 227, 111>> (* 'Descrição' *), <<68, 97, 116, 97>> (* 'Data' *), <<86, 97, 108, 111, 114>> (* 'Valor' *) >>, TwoRows)

DirFiles ==
    { PdfFile("a.pdf", <<46, 112, 100, 102>> (* '.pdf' *), Ok(0), <<Ok(TextPurchase)>>, Ok(0), <<Ok(TextScanned)>>),
      PdfFile("b.PDF", <<46, 80, 68, 70>> (* '.PDF' *), ExtractionError, << >>, OcrError, << >>),
      PdfFile("c.pdf", <<46, 112, 100, 102>> (* '.pdf' *), Ok(0), <<Ok(TextNoTransaction)>>, Ok(0), <<Ok(TextScanned)>>),
      TableFile("d.csv", <<46, 99, 115, 118>> (* '.csv' *), <<DecodeError, Ok(GoodTable), Ok(GoodTable)>>),
      TableFile("e.csv", <<46, 99, 115, 118>> (* '.csv' *),
                <<Ok(RawTable(<< <<68, 97, 116, 97>> (* 'Data' *), <<83, 97, 108, 100, 111>> (* 'Saldo' *) >>, TwoRows)),
                  Ok(RawTable(<< <<68, 97, 116, 97>> (* 'Data' *), <<83, 97, 108, 100, 111>> (* 'Saldo' *) >>, TwoRows)),
                  Ok(RawTable(<< <<68, 97, 116, 97>> (* 'Data' *), <<83, 97, 108, 100, 111>> (* 'Saldo' *) >>, TwoRows))>>),
      TableFile("f.xlsx", <<46, 120, 108, 115, 120>> (* '.xlsx' *),
                <<Ok(RawTable(<< <<100, 97, 116, 101>> (* 'date' *), <<97, 109, 111, 117, 110, 116>> (* 'amount' *), <<100, 101, 115, 99, 114, 105, 112, 116, 105, 111, 110>> (* 'description' *) >>, <<RowJuro, RowCafe>>))>>),
      TableFile("g.xls", <<46, 120, 108, 115>> (* '.xls' *),
                <<Ok(RawTable(<< <<68, 101, 115, 99, 114, 105, 231, 227, 111>> (* 'Descrição' *), <<100, 101, 115, 99, 114, 105, 112, 116, 105, 111, 110>> (* 'description' *), <<68, 97, 116, 97>> (* 'Data' *), <<86, 97, 108, 111, 114>> (* 'Valor' *) >>, TwoRows))>>),
      TableFile("h.xlsx", <<46, 120, 108, 115, 120>> (* '.xlsx' *),
                <<Ok(RawTable(<< <<100, 97, 116, 101>> (* 'date' *), <<97, 109, 111, 117, 110, 116>> (* 'amount' *), <<100, 101, 115, 99, 114, 105, 112, 116, 105, 111, 110>> (* 'description' *) >>, <<RowRenda, RowTaxa>>))>>),
      File("notes.txt", <<46, 116, 120, 116>> (* '.txt' *), TRUE, Ok(0), << >>, Ok(0), << >>, << >>) }

Listings == {q \in SeqsUpTo(DirFiles, MaxFiles) : Distinct(q)}

---------------------------------------------------------------------------
(* process_statement and process_directory as a state machine *)

\* '\n'.join(texts).split('\n')
JoinLines(texts) == IF texts = << >> THEN EmptyText ELSE Flatten(texts)

\* "if text:" for what extract_text returned
Truthy(text) == text # None /\ text # EmptyText

\* lines 254, 262: the frames with their source_file column, one below the
\* other.  Frames with the same labels are stacked; the labels differ only
\* when a frame carries a label twice, and pandas refuses to reindex it.
Concat(frames) ==
    IF \A i \in 1..Len(frames) : frames[i].cols = frames[1].cols
    THEN Ok([cols |-> frames[1].cols, rows |-> Flatten([i \in 1..Len(frames) |-> frames[i].rows])])
    ELSE Raise("InvalidIndexError", "Reindexing only valid with uniquely valued Index objects")

\* line 254
WithSourceFile(df, name) ==
    [cols |-> Append(df.cols, source_file_label),
     rows |-> [r \in 1..Len(df.rows) |-> Append(df.rows[r], name)]]

\* lines 259-264
SortConcatenated(concatenated) ==
    IF concatenated.kind = "raise" THEN concatenated ELSE SortByDate(concatenated.val)

Aggregate(frames) ==
    IF frames = << >> THEN Ok(EmptyFrame) ELSE SortConcatenated(Concat(frames))

Idle ==
    /\ pc = "idle" /\ mode = "none" /\ listing = << >> /\ file_no = 1
    /\ all_transactions = << >> /\ file = NoFile /\ page_no = 1 /\ all_text = << >>
    /\ text_content = << >> /\ enc_no = 1 /\ ret = Ok(EmptyFrame) /\ result = Ok(EmptyFrame)
    /\ ocr_called = FALSE /\ attempted = << >>

Init == Idle /\ ParseIdle

\* a caller calls process_statement(file_path)
StatementCall ==
    /\ pc = "idle"
    /\ \E f \in Files : file' = f
    /\ mode' = "single"
    /\ pc' = "dispatch"
    /\ UNCHANGED <<pvars, listing, file_no, all_transactions, page_no, all_text, text_content,
                   enc_no, ret, result, ocr_called, attempted>>

\* lines 243-247: a caller calls process_directory; have_dir is whether the
\* argument or input_dir gives a directory
DirectoryCall ==
    /\ pc = "idle"
    /\ mode' = "batch"
    /\ \E have_dir \in BOOLEAN :
         IF have_dir
         THEN /\ \E l \in Listings : listing' = l
              /\ pc' = "dir_loop"
              /\ UNCHANGED result
         ELSE /\ result' = Raise("ValueError", "No directory specified")
              /\ pc' = "done"
              /\ UNCHANGED listing
    /\ UNCHANGED <<pvars, file_no, all_transactions, file, page_no, all_text, text_content, enc_no,
                   ret, ocr_called, attempted>>

\* lines 249-252: the next entry of the listing
DirLoop ==
    /\ pc = "dir_loop"
    /\ file_no <= Len(listing)
    /\ IF Lower(listing[file_no].suffix) \in supported_extensions
       THEN /\ file' = listing[file_no]
            /\ attempted' = Append(attempted, listing[file_no].name)
            /\ ocr_called' = FALSE
            /\ pc' = "dispatch"
            /\ UNCHANGED file_no
       ELSE /\ file_no' = file_no + 1
            /\ UNCHANGED <<file, attempted, ocr_called, pc>>
    /\ UNCHANGED <<pvars, mode, listing, all_transactions, page_no, all_text, text_content, enc_no,
                   ret, result>>

\* lines 35-48
Dispatch ==
    /\ pc = "dispatch"
    /\ IF ~file.exists
       THEN ret' = Raise("FileNotFoundError", "File not found") /\ pc' = "returned"
       ELSE IF Lower(file.suffix) \notin supported_extensions
       THEN ret' = Raise("ValueError", "Unsupported file format") /\ pc' = "returned"
       ELSE /\ pc' = IF Lower(file.suffix) = <<46, 112, 100, 102>> (* '.pdf' *) THEN "pdf_open"
                     ELSE IF Lower(file.suffix) = <<46, 99, 115, 118>> (* '.csv' *) THEN "csv" ELSE "excel"
            /\ UNCHANGED ret
    /\ page_no' = 1
    /\ all_text' = << >>
    /\ text_content' = << >>
    /\ enc_no' = 1
    /\ UNCHANGED <<pvars, mode, listing, file_no, all_transactions, file, result, ocr_called, attempted>>

\* line 56; an exception is caught at line 65
PdfOpen ==
    /\ pc = "pdf_open"
    /\ pc' = IF file.open.kind = "raise" THEN "ocr" ELSE "pdf_pages"
    /\ UNCHANGED <<pvars, mode, listing, file_no, all_transactions, file, page_no, all_text,
                   text_content, enc_no, ret, result, ocr_called, attempted>>

\* lines 58-61: one page; an exception is caught at line 65
PdfPage ==
    /\ pc = "pdf_pages"
    /\ page_no <= Len(file.pages)
    /\ LET text == file.pages[page_no]
       IN  IF text.kind = "raise"
           THEN pc' = "ocr" /\ UNCHANGED <<page_no, all_text>>
           ELSE /\ all_text' = IF Truthy(text.val) THEN Append(all_text, text.val) ELSE all_text
                /\ page_no' = page_no + 1
                /\ UNCHANGED pc
    /\ UNCHANGED <<pvars, mode, listing, file_no, all_transactions, file, text_content, enc_no, ret,
                   result, ocr_called, attempted>>

\* the test of line 63 negated
TextLayerEmpty(texts) == texts = << >>

\* lines 63-64
TextLayerReturns(texts) == texts # << >>

PdfText ==
    /\ pc = "pdf_pages"
    /\ page_no > Len(file.pages)
    /\ IF TextLayerReturns(all_text)
       THEN ret' = Ok(ParseTextContent(JoinLines(all_text))) /\ pc' = "returned"
       ELSE pc' = "ocr" /\ UNCHANGED ret
    /\ UNCHANGED <<pvars, mode, listing, file_no, all_transactions, file, page_no, all_text,
                   text_content, enc_no, result, ocr_called, attempted>>

\* lines 70-72; an exception is logged and raised again (lines 79-81)
OcrConvert ==
    /\ pc = "ocr"
    /\ ocr_called' = TRUE
    /\ IF file.convert.kind = "raise"
       THEN ret' = file.convert /\ pc' = "returned"
       ELSE pc' = "ocr_images" /\ UNCHANGED ret
    /\ page_no' = 1
    /\ text_content' = << >>
    /\ UNCHANGED <<pvars, mode, listing, file_no, all_transactions, file, all_text, enc_no, result,
                   attempted>>

\* lines 74-76: one image
OcrImage ==
    /\ pc = "ocr_images"
    /\ page_no <= Len(file.images)
    /\ LET text == file.images[page_no]
       IN  IF text.kind = "raise"
           THEN ret' = text /\ pc' = "returned" /\ UNCHANGED <<page_no, text_content>>
           ELSE /\ text_content' = Append(text_content, text.val)
                /\ page_no' = page_no + 1
                /\ UNCHANGED <<ret, pc>>
    /\ UNCHANGED <<pvars, mode, listing, file_no, all_transactions, file, all_text, enc_no, result,
                   ocr_called, attempted>>

\* line 78
OcrText ==
    /\ pc = "ocr_images"
    /\ page_no > Len(file.images)
    /\ ret' = Ok(ParseTextContent(JoinLines(text_content)))
    /\ pc' = "returned"
    /\ UNCHANGED <<pvars, mode, listing, file_no, all_transactions, file, page_no, all_text,
                   text_content, enc_no, result, ocr_called, attempted>>

\* lines 186-193 for one encoding: the outcome of the try block, given the
\* outcome of read_csv.  An exception of read_csv or of
\* _standardize_dataframe is caught by one of the two except clauses.
CsvAttempt(load) ==
    IF load.kind = "raise" THEN load ELSE StandardizeDataframe(load.val)

\* lines 188-193: return the DataFrame, or continue with the next encoding
CsvAttempted(outcome) ==
    IF outcome.kind = "ok"
    THEN /\ ret' = outcome
         /\ pc' = "returned"
         /\ UNCHANGED enc_no
    ELSE /\ enc_no' = enc_no + 1
         /\ UNCHANGED <<ret, pc>>

\* lines 185-193: one encoding
CsvEncoding ==
    /\ pc = "csv"
    /\ enc_no <= Len(encodings)
    /\ CsvAttempted(CsvAttempt(file.loads[enc_no]))
    /\ UNCHANGED <<pvars, mode, listing, file_no, all_transactions, file, page_no, all_text,
                   text_content, result, ocr_called, attempted>>

\* line 195
CsvExhausted ==
    /\ pc = "csv"
    /\ enc_no > Len(encodings)
    /\ ret' = Raise("ValueError", "Could not process CSV file with any known encoding")
    /\ pc' = "returned"
    /\ UNCHANGED <<pvars, mode, listing, file_no, all_transactions, file, page_no, all_text,
                   text_content, enc_no, result, ocr_called, attempted>>

\* lines 199-204: every exception is logged and raised again
ExcelOutcome(load) ==
    IF load.kind = "raise" THEN load ELSE StandardizeDataframe(load.val)

Excel ==
    /\ pc = "excel"
    /\ ret' = ExcelOutcome(file.loads[1])
    /\ pc' = "returned"
    /\ UNCHANGED <<pvars, mode, listing, file_no, all_transactions, file, page_no, all_text,
                   text_content, enc_no, result, ocr_called, attempted>>

\* process_statement returns to the caller, or raises to it
StatementReturn ==
    /\ pc = "returned"
    /\ mode = "single"
    /\ result' = ret
    /\ pc' = "done"
    /\ UNCHANGED <<pvars, mode, listing, file_no, all_transactions, file, page_no, all_text,
                   text_content, enc_no, ret, ocr_called, attempted>>

\* lines 252-257: what the loop keeps of the outcome of process_statement
Contribution(outcome, name) ==
    IF outcome.kind = "ok" /\ outcome.val.rows # << >>
    THEN <<WithSourceFile(outcome.val, name)>>
    ELSE << >>

DirCollect ==
    /\ pc = "returned"
    /\ mode = "batch"
    /\ all_transactions' = all_transactions \o Contribution(ret, file.name)
    /\ file_no' = file_no + 1
    /\ pc' = "dir_loop"
    /\ UNCHANGED <<pvars, mode, listing, file, page_no, all_text, text_content, enc_no, ret, result,
                   ocr_called, attempted>>

\* lines 259-264
DirFinish ==
    /\ pc = "dir_loop"
    /\ file_no > Len(listing)
    /\ result' = Aggregate(all_transactions)
    /\ pc' = "done"
    /\ UNCHANGED <<pvars, mode, listing, file_no, all_transactions, file, page_no, all_text,
                   text_content, enc_no, ret, ocr_called, attempted>>

Next ==
    \/ StatementCall \/ DirectoryCall \/ DirLoop \/ Dispatch
    \/ PdfOpen \/ PdfPage \/ PdfText \/ OcrConvert \/ OcrImage \/ OcrText
    \/ CsvEncoding \/ CsvExhausted \/ Excel
    \/ StatementReturn \/ DirCollect \/ DirFinish

Spec == Init /\ [][Next]_<<vars, pvars>>

SpecParse == Init /\ [][ParseNext]_<<vars, pvars>>

---------------------------------------------------------------------------
(* Properties of the text parser, checked under SpecParse *)

\* C1: every transaction record the text parser emits has an amount <= 0 when
\* its type is DEBIT and an amount >= 0 when its type is CREDIT, whatever the
\* sign of the amount written in the line
C1_SignAgreesWithType ==
    /\ \A i \in 1..Len(transactions) :
          /\ transactions[i].type = "DEBIT" => transactions[i].amount[1] <= 0
          /\ transactions[i].type = "CREDIT" => transactions[i].amount[1] >= 0
    /\ \A r \in 1..Len(parsed.rows) :
          /\ parsed.rows[r][4] = "DEBIT" => parsed.rows[r][3][1] <= 0
          /\ parsed.rows[r][4] = "CREDIT" => parsed.rows[r][3][1] >= 0

\* a debit written with a positive amount and a credit written with a negative
\* one have been emitted
C1_Witness ==
    /\ ppc = "done"
    /\ \E j \in 1..Len(lines), i \in 1..Len(transactions) :
          /\ ExtractAmount(lines[j], 1) = <<1, <<4, 5>>, 0>>
          /\ transactions[i].type = "DEBIT"
          /\ transactions[i].amount = <<-1, <<4, 5>>, 0>>
    /\ \E j \in 1..Len(lines), i \in 1..Len(transactions) :
          /\ ExtractAmount(lines[j], 1) = <<-1, <<1, 2, 3, 4>>, -2>>
          /\ transactions[i].type = "CREDIT"
          /\ transactions[i].amount = <<1, <<1, 2, 3, 4>>, -2>>

\* the last line before line j that holds a date, 0 if there is none
C3_LastDated(j) == Max({0} \cup {k \in 1..(j - 1) : FirstDate(lines[k], 1) # None})

\* the date line j is to be given: its own, else that of the last dated line
C3_DateOf(j) ==
    IF FirstDate(lines[j], 1) # None THEN FirstDate(lines[j], 1)
    ELSE IF C3_LastDated(j) = 0 THEN None
    ELSE FirstDate(lines[C3_LastDated(j)], 1)

\* the dates of the records of the first n lines
RECURSIVE C3_Dates(_)
C3_Dates(n) ==
    IF n = 0 THEN << >>
    ELSE C3_Dates(n - 1)
         \o (IF C3_DateOf(n) # None /\ ExtractAmount(lines[n], 1) # None
             THEN <<C3_DateOf(n)>> ELSE << >>)

\* C3: a line without a date is given the date of the most recent earlier line
\* of the text that holds one, whether or not that line produced a record and
\* whatever blank or skipped lines lie between; a line without a date and
\* without an earlier dated line emits no record
C3_DateCarriedForward ==
    [i \in 1..Len(transactions) |-> transactions[i].date] = C3_Dates(line_no - 1)

\* a dated line without amount, a blank line, then a dateless line with an
\* amount, which has taken the date of the first
C3_Witness ==
    /\ ppc = "done"
    /\ Len(lines) = 3
    /\ FirstDate(lines[1], 1) # None /\ ExtractAmount(lines[1], 1) = None
    /\ Strip(lines[2]) = << >>
    /\ FirstDate(lines[3], 1) = None
    /\ Len(transactions) = 1
    /\ transactions[1].date = FirstDate(lines[1], 1)

\* C4: the amount detection gives an amount written with dot thousands
\* separators and a decimal comma its full value: "1.234,56" is 1234.56
C4_ThousandsAmountInFull ==
    (ppc = "done" /\ lines = << <<48, 50, 47, 48, 51, 47, 50, 48, 50, 52, 32, 49, 46, 50, 51, 52, 44, 53, 54>> (* '02/03/2024 1.234,56' *) >>)
        => (Len(transactions) = 1 /\ transactions[1].amount = <<1, <<1, 2, 3, 4, 5, 6>>, -2>>)

\* C10: the result of the text parser depends only on the text: after any
\* earlier parses it is the result of parsing the text alone, and a dateless
\* first line takes no date from an earlier text
C10_ResultOfTextAlone ==
    /\ ppc = "done" => parsed = ParseTextContent(lines)
    /\ (ppc = "loop" /\ line_no > 1 /\ FirstDate(lines[1], 1) = None)
          => (line_no = 2 => transactions = << >>)

\* an earlier parse has left a date, and the text parsed now starts with a
\* dateless line that holds an amount
C10_Witness ==
    /\ ppc = "done"
    /\ left_date # None
    /\ FirstDate(lines[1], 1) = None
    /\ ExtractAmount(lines[1], 1) # None
    /\ Len(lines) >= 2

---------------------------------------------------------------------------
(* Properties of process_statement and process_directory, checked under Spec *)

\* the names of the supported files of a listing, in listing order
RECURSIVE C2_Supported(_)
C2_Supported(l) ==
    IF l = << >> THEN << >>
    ELSE (IF Lower(Head(l).suffix) \in supported_extensions THEN <<Head(l).name>> ELSE << >>)
         \o C2_Supported(Tail(l))

C2_Collected == Flatten([i \in 1..Len(all_transactions) |-> all_transactions[i].rows])

\* C2: process_directory with a directory raises no error: every supported
\* file is attempted once in listing order and the table returned holds
\* exactly the rows of the files that returned a non-empty table
C2_FaultIsolation ==
    (pc = "done" /\ mode = "batch" /\ result # Raise("ValueError", "No directory specified"))
        => /\ result.kind = "ok"
           /\ attempted = C2_Supported(listing)
           /\ Len(result.val.rows) = Len(C2_Collected)
           /\ {result.val.rows[r] : r \in 1..Len(result.val.rows)}
                 = {C2_Collected[r] : r \in 1..Len(C2_Collected)}

\* a before b in a table sorted by date, unparsed dates last
C5_InOrder(a, b) ==
    b = NaT \/ (a # NaT /\ (a[1] < b[1] \/ (a[1] = b[1] /\ a[2] < b[2])
                            \/ (a[1] = b[1] /\ a[2] = b[2] /\ a[3] <= b[3])))

C5_Sorted(df) ==
    \A i, j \in 1..Len(df.rows) :
        i < j => C5_InOrder(df.rows[i][ColIndex(df.cols, date_label)],
                            df.rows[j][ColIndex(df.cols, date_label)])

\* C5: the table returned by the text parser, by the tabular standardizer and
\* by process_directory is non-decreasing by date, and its rows with an
\* unparsed date come after every row with a parsed date
C5_SortedByDate ==
    /\ (pc = "returned" /\ ret.kind = "ok") => C5_Sorted(ret.val)
    /\ (pc = "done" /\ result.kind = "ok") => C5_Sorted(result.val)

\* process_directory has returned a table with an unparsed date whose rows
\* were collected in another order
C5_Witness ==
    /\ pc = "done" /\ mode = "batch" /\ result.kind = "ok"
    /\ Len(result.val.rows) >= 3
    /\ \E r \in 1..Len(result.val.rows) : result.val.rows[r][1] = NaT
    /\ result.val.rows # C2_Collected

C6_Lacks(t) ==
    \/ ColumnsMatching(t.cols, date_terms) = << >>
    \/ ColumnsMatching(t.cols, amount_terms) = << >>
    \/ ColumnsMatching(t.cols, desc_terms) = << >>

\* C6: process_statement on a .csv file that decodes under some encoding and
\* whose table lacks a column for a canonical field fails with the missing
\* columns error; the encoding error is raised only when no encoding decodes
\* the file
C6_MissingColumnsSurfaced ==
    (pc = "done" /\ mode = "single" /\ file.exists /\ Lower(file.suffix) = <<46, 99, 115, 118>> (* '.csv' *))
        => /\ \A e \in 1..Len(encodings) :
                 (file.loads[e].kind = "ok" /\ C6_Lacks(file.loads[e].val))
                     => result = Raise("ValueError",
                                       "Could not identify required columns in the file")
           /\ result = Raise("ValueError", "Could not process CSV file with any known encoding")
                 => \A e \in 1..Len(encodings) : file.loads[e] = DecodeError

\* C7: the table the standardizer returns holds no row whose amount is missing
C7_NoMissingAmount ==
    (pc = "returned" /\ ret.kind = "ok" /\ Lower(file.suffix) # <<46, 112, 100, 102>> (* '.pdf' *))
        => \A r \in 1..Len(ret.val.rows) :
               ret.val.rows[r][ColIndex(ret.val.cols, amount_label)] # NaN

\* the leftmost column of t whose name matches a term, 0 if there is none
C8_Leftmost(t, terms) ==
    Min({Len(t.cols) + 1} \cup {i \in 1..Len(t.cols) : ColumnMatches(t.cols[i], terms)})
        % (Len(t.cols) + 1)

\* the canonical table of t, its fields read from the columns given
C8_Canonical(t, d, a, x) ==
    SortValues([cols |-> <<date_label, description_label, amount_label, type_label>>,
                rows |-> [r \in 1..Len(t.rows) |->
                            <<ToDatetime(t, d)[r], t.rows[r][x], ToNumeric(t, a)[r],
                              TypeOf(ToNumeric(t, a)[r])>>]])

C8_Resolved(t, out, d, a, x) ==
    IF d = 0 \/ a = 0 \/ x = 0
    THEN out = Raise("ValueError", "Could not identify required columns in the file")
    ELSE out = Ok(C8_Canonical(t, d, a, x))

\* C8: the standardizer reads each canonical field from the leftmost column
\* whose lowercased name matches a synonym of the field, and raises the
\* missing columns error exactly when some field has no matching column
C8_LeftmostColumnSelected ==
    (pc = "returned" /\ Lower(file.suffix) \in { <<46, 120, 108, 115, 120>> (* '.xlsx' *), <<46, 120, 108, 115>> (* '.xls' *) }
       /\ file.loads[1].kind = "ok")
        => C8_Resolved(file.loads[1].val, ret,
                       C8_Leftmost(file.loads[1].val, date_terms),
                       C8_Leftmost(file.loads[1].val, amount_terms),
                       C8_Leftmost(file.loads[1].val, desc_terms))

C9_Pdf == file.exists /\ Lower(file.suffix) = <<46, 112, 100, 102>> (* '.pdf' *)

C9_TextLayerFailed ==
    file.open.kind = "raise" \/ \E p \in 1..Len(file.pages) : file.pages[p].kind = "raise"

C9_HasText(page) == page.kind = "ok" /\ Truthy(page.val)

C9_Texts ==
    [p \in 1..Len(SelectSeq(file.pages, C9_HasText)) |-> SelectSeq(file.pages, C9_HasText)[p].val]

C9_OcrFails ==
    file.convert.kind = "raise" \/ \E p \in 1..Len(file.images) : file.images[p].kind = "raise"

\* C9: for a .pdf file OCR is invoked only after the text layer has failed or
\* produced no text; when the text layer produces text the result is the
\* parse of that text and OCR is not invoked; when OCR is invoked and fails
\* its failure is what process_statement raises
C9_OcrOnlyAsFallback ==
    C9_Pdf =>
        /\ ocr_called => (C9_TextLayerFailed \/ C9_Texts = << >>)
        /\ (pc = "returned" /\ ~C9_TextLayerFailed /\ C9_Texts # << >>)
              => (ret = Ok(ParseTextContent(JoinLines(C9_Texts))) /\ ~ocr_called)
        /\ (pc = "returned" /\ ocr_called /\ C9_OcrFails) => ret = OcrError

\* the text layer answered for every page without any text, OCR was invoked
\* and failed on an image
C9_Witness ==
    /\ C9_Pdf /\ pc = "returned"
    /\ ~C9_TextLayerFailed /\ Len(file.pages) >= 1 /\ C9_Texts = << >>
    /\ ocr_called
    /\ file.convert.kind = "ok"
    /\ ret = OcrError

=============================================================================
